---- MODULE Spec2Model ----
(***************************************************************************)
(* lightws: the frame-head codec, the payload mask, the fixed-size Store   *)
(* and the read / write state machines of Stream, with the transport as    *)
(* the environment that chunks every read and every write.                 *)
(*                                                                         *)
(* Byte strings are sequences of 0..255.  Rust slices are 0-based and      *)
(* half-open; Slice(s, beg, end) is s[beg..end].                           *)
(***************************************************************************)
EXTENDS Integers, Sequences, FiniteSets, TLC

(***************************************************************************)
(* Bounds of the model.                                                    *)
(***************************************************************************)
\* frames on the incoming wire
MaxFrames == 3
\* payload bytes per incoming frame
MaxPayload == 3
\* length of the buffer the caller hands to read
BufLen == 16
\* length of the buffers the caller hands to write
MaxWrite == 3
\* a caller starts no write once the transport holds this many bytes
MaxTx == 6
\* the bytes one call of the caller may put on the transport
MaxCallTx == 10
\* the chunks below the largest that the transport delivers of a long Ping
MaxChunk == 3
\* the bytes a buffer holds past the longest head encoded into it
MaxExtra == 4
\* the largest payload length a head announces
MaxLenValue == 16777216
\* the longest buffer the masks are applied to
MaskLen == 9
\* the times the client writes its message
Rounds == 2

(***************************************************************************)
(* Program constants.                                                      *)
(***************************************************************************)
\* capacity of HeadStore
HeadCap == 14
\* capacity of PingStore
PingCap == 125
\* largest payload a Ping may announce
MaxPingLen == 125
\* smallest caller buffer read accepts
MinBuf == 14

(***************************************************************************)
(* Bytes.                                                                  *)
(***************************************************************************)
Byte == 0..255

Min(a, b) == IF a < b THEN a ELSE b

RECURSIVE XorBits(_, _, _)
XorBits(a, b, n) ==
    IF n = 0 THEN 0
    ELSE (((a % 2) + (b % 2)) % 2) + 2 * XorBits(a \div 2, b \div 2, n - 1)

\* a ^ b on u8
Xor(a, b) == XorBits(a, b, 8)

\* s[beg..end] of a 0-based slice
Slice(s, beg, end) == SubSeq(s, beg + 1, end)

\* s with s[at..at+Len(d)] overwritten by d
Patch(s, at, d) ==
    SubSeq(s, 1, at) \o SubSeq(d, 1, Min(Len(d), Len(s) - at))
                    \o SubSeq(s, at + Len(d) + 1, Len(s))

Zeros(n) == [i \in 1..n |-> 0]

\* big-endian value of a byte string
RECURSIVE from_be_bytes(_)
from_be_bytes(b) ==
    IF Len(b) = 0 THEN 0
    ELSE from_be_bytes(SubSeq(b, 1, Len(b) - 1)) * 256 + b[Len(b)]

\* the n bytes of v with the low byte first
RECURSIVE to_be_bytes_reversed(_, _)
to_be_bytes_reversed(v, n) ==
    IF n = 0 THEN <<>>
    ELSE <<v % 256>> \o to_be_bytes_reversed(v \div 256, n - 1)

\* the n big-endian bytes of v
RECURSIVE to_be_bytes(_, _)
to_be_bytes(v, n) ==
    IF n = 0 THEN <<>>
    ELSE Append(to_be_bytes(v \div 256, n - 1), (v % 256))

(***************************************************************************)
(* frame/flag.rs, frame/length.rs, frame/mask.rs                           *)
(***************************************************************************)
FinFlag(fin) == IF fin = "Y" THEN 128 ELSE 0

OpCodeFlag(op) ==
    CASE op = "Continue" -> 0
      [] op = "Text" -> 1
      [] op = "Binary" -> 2
      [] op = "Close" -> 8
      [] op = "Ping" -> 9
      [] op = "Pong" -> 10

\* a decoder that takes a clear fin bit as illegal
Fin_from_flag_set_only(b) ==
    IF (b \div 16) * 16 = 128 THEN "Y" ELSE "IllegalFin"

\* Fin::from_flag: "IllegalFin" when the high nibble is neither 0x8 nor 0x0
Fin_from_flag(b) ==
    CASE (b \div 16) * 16 = 128 -> "Y"
      [] (b \div 16) * 16 = 0 -> "N"
      [] OTHER -> "IllegalFin"

\* a decoder that takes an unknown low nibble as Binary
OpCode_from_flag_lenient(b) ==
    CASE b % 16 = 0 -> "Continue"
      [] b % 16 = 1 -> "Text"
      [] b % 16 = 8 -> "Close"
      [] b % 16 = 9 -> "Ping"
      [] b % 16 = 10 -> "Pong"
      [] OTHER -> "Binary"

\* OpCode::from_flag: "IllegalOpCode" for an unknown low nibble
OpCode_from_flag(b) ==
    CASE b % 16 = 0 -> "Continue"
      [] b % 16 = 1 -> "Text"
      [] b % 16 = 2 -> "Binary"
      [] b % 16 = 8 -> "Close"
      [] b % 16 = 9 -> "Ping"
      [] b % 16 = 10 -> "Pong"
      [] OTHER -> "IllegalOpCode"

NoKey == <<0, 0, 0, 0>>
MaskNone == [kind |-> "None", key |-> NoKey]
MaskSkip == [kind |-> "Skip", key |-> NoKey]
MaskKey(k) == [kind |-> "Key", key |-> k]

\* Mask::from_flag
Mask_from_flag(b) == IF (b \div 128) * 128 = 128 THEN MaskSkip ELSE MaskNone

\* Mask::to_flag
Mask_to_flag(m) == IF m.kind = "None" THEN 0 ELSE 128

\* a constructor that keeps 126 in the flag byte
from_num_late(n) ==
    IF n < 127 THEN [kind |-> "Standard", v |-> n % 256]
    ELSE IF n < 65536 THEN [kind |-> "Extended1", v |-> n % 65536]
    ELSE [kind |-> "Extended2", v |-> n]

\* PayloadLen::from_num
from_num(n) ==
    IF n < 126 THEN [kind |-> "Standard", v |-> n % 256]
    ELSE IF n < 65536 THEN [kind |-> "Extended1", v |-> n % 65536]
    ELSE [kind |-> "Extended2", v |-> n]

\* PayloadLen::to_num
to_num(l) == l.v

\* PayloadLen::from_flag
PayloadLen_from_flag(b) ==
    CASE b % 128 = 126 -> [kind |-> "Extended1", v |-> 0]
      [] b % 128 = 127 -> [kind |-> "Extended2", v |-> 0]
      [] OTHER -> [kind |-> "Standard", v |-> b % 128]

\* PayloadLen::to_flag
PayloadLen_to_flag(l) ==
    CASE l.kind = "Standard" -> l.v
      [] l.kind = "Extended1" -> 126
      [] l.kind = "Extended2" -> 127

\* apply_mask: buf[i] ^= key[i & 3]
apply_mask(key, buf) == [i \in 1..Len(buf) |-> Xor(buf[i], key[((i - 1) % 4) + 1])]

\* a key that is not rotated
RotateKey_none(key, head) == key

\* The key as the bytes of the u32 after rotate_right(8 * head) on a
\* little-endian target, rotate_left(8 * head) on a big-endian one: in
\* memory order both are the key rotated by head bytes.
RotateKey(key, head) == [i \in 1..4 |-> key[((i - 1 + head) % 4) + 1]]

\* apply_mask4(key, buf) for a buffer that starts at an address = addr mod 4.
\* align_to_mut::<u32>() gives the unaligned prefix, the aligned words and the
\* suffix; a slice too short to reach a word boundary is all prefix.
apply_mask4(key, buf, addr) ==
    LET off == (4 - (addr % 4)) % 4
        plen == IF off > Len(buf) THEN Len(buf) ELSE off
        mlen == IF off > Len(buf) THEN 0 ELSE ((Len(buf) - off) \div 4) * 4
        prefix == SubSeq(buf, 1, plen)
        middle == SubSeq(buf, plen + 1, plen + mlen)
        suffix == SubSeq(buf, plen + mlen + 1, Len(buf))
        head == plen % 4
        key4 == IF head > 0 THEN RotateKey(key, head) ELSE key
    IN apply_mask(key, prefix) \o apply_mask(key4, middle) \o apply_mask(key4, suffix)

(***************************************************************************)
(* frame/mod.rs: FrameHead                                                 *)
(***************************************************************************)
FrameHead(fin, opcode, mask, length) ==
    [fin |-> fin, opcode |-> opcode, mask |-> mask, length |-> length]

\* FrameHead::encode_unchecked: the bytes written (their count is the result)
encode_unchecked(h) ==
    LET b1 == FinFlag(h.fin) + OpCodeFlag(h.opcode)
        b2 == Mask_to_flag(h.mask) + PayloadLen_to_flag(h.length)
        ext == CASE h.length.kind = "Standard" -> <<>>
                 [] h.length.kind = "Extended1" -> to_be_bytes(h.length.v, 2)
                 [] h.length.kind = "Extended2" -> to_be_bytes(h.length.v, 8)
        key == CASE h.mask.kind = "Key" -> h.mask.key
                 [] h.mask.kind = "Skip" -> NoKey
                 [] h.mask.kind = "None" -> <<>>
    IN <<b1, b2>> \o ext \o key

\* FrameHead::encode into buf: the error, the count of bytes written and the
\* buffer after the call; a write that does not fit returns
\* NotEnoughCapacity and leaves what was written before it
encode(h, buf) ==
    LET b1 == FinFlag(h.fin) + OpCodeFlag(h.opcode)
        b2 == Mask_to_flag(h.mask) + PayloadLen_to_flag(h.length)
        ext == CASE h.length.kind = "Standard" -> <<>>
                 [] h.length.kind = "Extended1" -> to_be_bytes(h.length.v, 2)
                 [] h.length.kind = "Extended2" -> to_be_bytes(h.length.v, 8)
        key == CASE h.mask.kind = "Key" -> h.mask.key
                 [] h.mask.kind = "Skip" -> NoKey
                 [] h.mask.kind = "None" -> <<>>
        buf1 == Patch(buf, 0, <<b1, b2>>)
        buf2 == Patch(buf1, 2, ext)
        pos2 == 2 + Len(ext)
        buf3 == Patch(buf2, pos2, key)
    IN IF Len(buf) < 2 THEN [err |-> "NotEnoughCapacity", n |-> 0, buf |-> buf]
       ELSE IF Len(buf) - 2 < Len(ext)
       THEN [err |-> "NotEnoughCapacity", n |-> 0, buf |-> buf1]
       ELSE IF Len(buf) - pos2 < Len(key)
       THEN [err |-> "NotEnoughCapacity", n |-> 0, buf |-> buf2]
       ELSE [err |-> "Ok", n |-> pos2 + Len(key), buf |-> buf3]

NoHead == FrameHead("N", "Continue", MaskNone, from_num(0))
DecodeErr(e) == [err |-> e, head |-> NoHead, n |-> 0]

\* FrameHead::decode: err = "Ok" with the head and the bytes consumed, or the
\* FrameError
decode(buf) ==
    IF Len(buf) < 2 THEN DecodeErr("NotEnoughData")
    ELSE
      LET b1 == buf[1]
          b2 == buf[2]
          fin == Fin_from_flag(b1)
          opcode == OpCode_from_flag(b1)
          mask0 == Mask_from_flag(b2)
          length0 == PayloadLen_from_flag(b2)
          extn == CASE length0.kind = "Standard" -> 0
                    [] length0.kind = "Extended1" -> 2
                    [] length0.kind = "Extended2" -> 8
      IN IF fin = "IllegalFin" THEN DecodeErr("IllegalFin")
         ELSE IF opcode = "IllegalOpCode" THEN DecodeErr("IllegalOpCode")
         ELSE IF Len(buf) - 2 < extn THEN DecodeErr("NotEnoughData")
         ELSE
           LET length == IF extn = 0 THEN length0
                         ELSE [kind |-> length0.kind,
                               v |-> from_be_bytes(Slice(buf, 2, 2 + extn))]
               n == 2 + extn
           IN IF mask0.kind = "None"
              THEN [err |-> "Ok", head |-> FrameHead(fin, opcode, mask0, length), n |-> n]
              ELSE IF Len(buf) - n < 4 THEN DecodeErr("NotEnoughData")
              ELSE
                LET key == Slice(buf, n, n + 4)
                    mask == IF key = NoKey THEN MaskSkip ELSE MaskKey(key)
                IN [err |-> "Ok", head |-> FrameHead(fin, opcode, mask, length),
                    n |-> n + 4]

(***************************************************************************)
(* bleed/store.rs: Store<N>, a buffer with 8-bit cursors                   *)
(***************************************************************************)
U8(n) == n % 256

\* Store::new
Store_new(N) == [rd |-> 0, wr |-> 0, buf |-> Zeros(N)]

\* a new store that would claim to be full
new_with_data_full(N, data) ==
    [rd |-> 0, wr |-> N,
     buf |-> Patch(Zeros(N), 0, SubSeq(data, 1, Min(Len(data), N)))]

\* Store::new_with_data (the copy is unchecked; data longer than the buffer
\* is cut at its end here)
new_with_data(N, data) ==
    [rd |-> 0, wr |-> U8(Len(data)),
     buf |-> Patch(Zeros(N), 0, SubSeq(data, 1, Min(Len(data), N)))]

\* a store that drops the data it is to take
replace_with_data_dropped(s, data) == [s EXCEPT !.rd = 0, !.wr = 0]

\* Store::replace_with_data
replace_with_data(s, data) ==
    [rd |-> 0, wr |-> U8(Len(data)),
     buf |-> Patch(s.buf, 0, SubSeq(data, 1, Min(Len(data), Len(s.buf))))]

\* Store::set_wr_pos
set_wr_pos(s, n) == [s EXCEPT !.wr = U8(n)]

\* Store::advance_rd_pos
advance_rd_pos(s, n) == [s EXCEPT !.rd = U8(s.rd + U8(n))]

\* Store::advance_wr_pos
advance_wr_pos(s, n) == [s EXCEPT !.wr = U8(s.wr + U8(n))]

\* Store::rd_left
rd_left(s) == s.wr - s.rd

\* Store::wr_left
wr_left(s) == Len(s.buf) - s.wr

\* Store::is_empty
is_empty(s) == s.wr = 0

\* Store::read
Store_read(s) == Slice(s.buf, s.rd, s.wr)

\* Store::reset
reset(s) == [s EXCEPT !.rd = 0, !.wr = 0]

(***************************************************************************)
(* stream/state.rs: ReadState, WriteState, HeartBeat                       *)
(***************************************************************************)
RS(tag, store, next, mask, beg, end, processed) ==
    [tag |-> tag, store |-> store, next |-> next, mask |-> mask,
     beg |-> beg, end |-> end, processed |-> processed]

ReadHead(store) == RS("ReadHead", store, 0, MaskNone, 0, 0, 0)
ReadData(next, mask) == RS("ReadData", Store_new(HeadCap), next, mask, 0, 0, 0)
ReadPing(next, mask) == RS("ReadPing", Store_new(HeadCap), next, mask, 0, 0, 0)
ProcessBufState(beg, end, processed) ==
    RS("ProcessBuf", Store_new(HeadCap), 0, MaskNone, beg, end, processed)
\* the end of the stream taken for an empty head store
Eof_forgotten == RS("ReadHead", Store_new(HeadCap), 0, MaskNone, 0, 0, 0)

Eof == RS("Eof", Store_new(HeadCap), 0, MaskNone, 0, 0, 0)
Close == RS("Close", Store_new(HeadCap), 0, MaskNone, 0, 0, 0)

\* ReadState::new
ReadState_new == ReadHead(Store_new(HeadCap))

WS(tag, store, next) == [tag |-> tag, store |-> store, next |-> next]
WriteHead(store) == WS("WriteHead", store, 0)
\* a write state that forgets the payload still owed to the frame
WriteData_restart(next) == WS("WriteHead", Store_new(HeadCap), 0)
WriteData(next) == WS("WriteData", Store_new(HeadCap), next)
\* a write state that forgets the transport accepted nothing
WriteZero_forgotten == WS("WriteHead", Store_new(HeadCap), 0)
WriteZero == WS("WriteZero", Store_new(HeadCap), 0)

\* WriteState::new
WriteState_new == WriteHead(Store_new(HeadCap))

\* HeartBeat::new
HeartBeat_new == [ping_store |-> Store_new(PingCap), is_complete |-> FALSE]

(***************************************************************************)
(* The read path.  A read call is given the caller's buffer buf, and the   *)
(* transport's answer to the one read it may issue: the bytes data it      *)
(* delivers (none: end of stream), or pending.  env.addr is the address of *)
(* buf mod 4, env.ping_addr that of the ping store's bytes, env.memcpy the *)
(* order in which the build's memcpy moves bytes.  The outcome is the new  *)
(* read state, heartbeat and buffer, the result (ret bytes, or err) and    *)
(* io, the number of transport reads issued.                               *)
(***************************************************************************)
\* a read path that reads the transport twice where it is to read once
Outcome_double(rs, hb, buf, ret, err, io) ==
    [rs |-> rs, hb |-> hb, buf |-> buf, ret |-> ret, err |-> err, io |-> 2 * io]

Outcome(rs, hb, buf, ret, err, io) ==
    [rs |-> rs, hb |-> hb, buf |-> buf, ret |-> ret, err |-> err, io |-> io]

\* min_len (64-bit target)
min_len(buf_len, length) == Min(buf_len, length)

\* std::ptr::copy(buf + src, buf + dst, n): the spans may overlap
ptr_copy(buf, src, dst, n, env) == Patch(buf, dst, Slice(buf, src, src + n))

RECURSIVE CopyDescending(_, _, _, _)
CopyDescending(buf, src, dst, i) ==
    IF i = 0 THEN buf
    ELSE CopyDescending([buf EXCEPT ![dst + i] = buf[src + i]], src, dst, i - 1)

\* std::ptr::copy_nonoverlapping(buf + src, buf + dst, n): undefined when the
\* spans overlap; the build then moves the bytes in ascending or in
\* descending address order
copy_nonoverlapping(buf, src, dst, n, env) ==
    IF src - dst >= n \/ dst - src >= n \/ env.memcpy = "ascending"
    THEN Patch(buf, dst, Slice(buf, src, src + n))
    ELSE CopyDescending(buf, src, dst, n)

\* the copy of the payload towards the front of buf, as the two read paths
\* do it
MoveForward(buf, src, dst, n, env) ==
    IF env.sync THEN copy_nonoverlapping(buf, src, dst, n, env)
    ELSE ptr_copy(buf, src, dst, n, env)

\* apply_mask4 on buf[beg..beg+n]
Unmask(mask, buf, beg, n, addr) ==
    IF mask.kind = "Key"
    THEN Patch(buf, beg, apply_mask4(mask.key, Slice(buf, beg, beg + n), addr + beg))
    ELSE buf

\* ReadState::ProcessBuf, looped until the call returns
RECURSIVE ProcessBuf(_, _, _, _, _, _)
ProcessBuf(buf, beg, end, processed, hb, env) ==
    LET d == decode(Slice(buf, beg, end))
        stay == ProcessBufState(beg, end, processed)
    IN
    IF d.err = "NotEnoughData"
    THEN Outcome(IF beg = end THEN ReadState_new
                 ELSE ReadHead(new_with_data(HeadCap, Slice(buf, beg, end))),
                 hb, buf, processed, "Ok", 0)
    ELSE IF d.err # "Ok" THEN Outcome(stay, hb, buf, 0, d.err, 0)
    ELSE
      LET opcode == d.head.opcode
          mask == d.head.mask
          beg1 == beg + d.n
          frame_len == to_num(d.head.length)
          buf_len == end - beg1
          data_len == min_len(buf_len, frame_len)
      IN
      CASE opcode \in {"Text", "Pong"} ->
             Outcome(stay, hb, buf, 0, "UnsupportedOpcode", 0)
        [] opcode \in {"Binary", "Continue"} ->
             LET buf1 == IF data_len # 0
                         THEN MoveForward(Unmask(mask, buf, beg1, data_len, env.addr),
                                          beg1, processed, data_len, env)
                         ELSE buf
             IN IF frame_len > buf_len
                THEN Outcome(ReadData(frame_len - data_len, mask), hb, buf1,
                             processed + data_len, "Ok", 0)
                ELSE ProcessBuf(buf1, beg1 + data_len, end, processed + data_len,
                                hb, env)
        [] opcode = "Ping" ->
             IF frame_len > MaxPingLen
             THEN Outcome(stay, hb, buf, 0, "IllegalData", 0)
             ELSE
               LET buf1 == IF data_len # 0
                           THEN Unmask(mask, buf, beg1, data_len, env.addr)
                           ELSE buf
                   store == IF data_len # 0
                            THEN replace_with_data(hb.ping_store,
                                                   Slice(buf1, beg1, beg1 + data_len))
                            ELSE reset(hb.ping_store)
               IN IF frame_len > buf_len
                  THEN Outcome(ReadPing(U8(U8(frame_len) - U8(data_len)), mask),
                               [ping_store |-> store, is_complete |-> FALSE],
                               buf1, processed, "Ok", 0)
                  ELSE ProcessBuf(buf1, beg1 + data_len, end, processed,
                                  [ping_store |-> store, is_complete |-> TRUE], env)
        [] opcode = "Close" -> Outcome(Close, hb, buf, processed, "Ok", 0)

\* ReadState::ReadHead
ReadHeadStep(rs, hb, buf, data, pending, env) ==
    LET head_store_len == rd_left(rs.store)
        buf0 == IF ~is_empty(rs.store) THEN Patch(buf, 0, Store_read(rs.store)) ELSE buf
    IN IF pending THEN Outcome(rs, hb, buf0, 0, "Pending", 1)
       ELSE IF Len(data) = 0 THEN Outcome(Eof, hb, buf0, 0, "Ok", 1)
       ELSE [ProcessBuf(Patch(buf0, head_store_len, data), 0,
                        Len(data) + head_store_len, 0, hb, env) EXCEPT !.io = 1]

\* ReadState::ReadPing
ReadPingStep(rs, hb, buf, data, pending, env) ==
    LET store == hb.ping_store
        read_n == Len(data)
        \* the destination is ping_store.write()[..next]; apply_mask4 runs over
        \* all of it, the bytes past read_n included
        dest == Slice(Patch(store.buf, store.wr, data), store.wr, store.wr + rs.next)
        plain == IF rs.mask.kind = "Key"
                 THEN apply_mask4(rs.mask.key, dest, env.ping_addr + store.wr)
                 ELSE dest
        store1 == advance_wr_pos([store EXCEPT !.buf = Patch(store.buf, store.wr, plain)],
                                 read_n)
    IN IF rs.next > wr_left(store) THEN Outcome(rs, hb, buf, 0, "panic", 0)
       ELSE IF pending THEN Outcome(rs, hb, buf, 0, "Pending", 1)
       ELSE IF read_n = 0 THEN Outcome(Eof, hb, buf, 0, "Ok", 1)
       ELSE IF rs.next = U8(read_n)
       THEN Outcome(ReadState_new, [ping_store |-> store1, is_complete |-> TRUE],
                    buf, 0, "Ok", 1)
       ELSE Outcome(ReadPing(U8(rs.next - U8(read_n)), rs.mask),
                    [ping_store |-> store1, is_complete |-> hb.is_complete],
                    buf, 0, "Ok", 1)

\* ReadState::ReadData that hands the caller none of what it read
ReadDataStep_silent(rs, hb, buf, data, pending, env) ==
    IF pending THEN Outcome(rs, hb, buf, 0, "Pending", 1)
    ELSE Outcome(IF Len(data) = 0 THEN Eof
                 ELSE IF rs.next > Len(data) THEN ReadData(rs.next - Len(data), rs.mask)
                 ELSE ReadState_new,
                 hb, buf, 0, "Ok", 1)

\* ReadState::ReadData that goes on counting after the last byte of the frame
ReadDataStep_counting(rs, hb, buf, data, pending, env) ==
    LET read_n == Len(data)
        len == min_len(read_n, rs.next)
        buf1 == Unmask(rs.mask, Patch(buf, 0, data), 0, len, env.addr)
    IN IF pending THEN Outcome(rs, hb, buf, 0, "Pending", 1)
       ELSE IF read_n = 0 THEN Outcome(Eof, hb, buf, 0, "Ok", 1)
       ELSE IF rs.next >= read_n
       THEN Outcome(ReadData(rs.next - read_n, rs.mask), hb, buf1, read_n, "Ok", 1)
       ELSE [ProcessBuf(buf1, len, read_n, len, hb, env) EXCEPT !.io = 1]

\* ReadState::ReadData, in read_some
ReadDataStep(rs, hb, buf, data, pending, env) ==
    LET read_n == Len(data)
        len == min_len(read_n, rs.next)
        buf1 == Unmask(rs.mask, Patch(buf, 0, data), 0, len, env.addr)
    IN IF pending THEN Outcome(rs, hb, buf, 0, "Pending", 1)
       ELSE IF read_n = 0 THEN Outcome(Eof, hb, buf, 0, "Ok", 1)
       ELSE IF rs.next > read_n
       THEN Outcome(ReadData(rs.next - read_n, rs.mask), hb, buf1, read_n, "Ok", 1)
       ELSE [ProcessBuf(buf1, len, read_n, len, hb, env) EXCEPT !.io = 1]

\* read_some with its first arm gone: a stream at its end reads on
read_some_past_end(rs, hb, buf, data, pending, env) ==
    CASE rs.tag \in {"Eof", "Close", "ReadHead"} ->
           ReadHeadStep(IF rs.tag = "ReadHead" THEN rs ELSE ReadState_new,
                        hb, buf, data, pending, env)
      [] rs.tag = "ReadData" -> ReadDataStep(rs, hb, buf, data, pending, env)
      [] rs.tag = "ReadPing" -> ReadPingStep(rs, hb, buf, data, pending, env)
      [] rs.tag = "ProcessBuf" ->
           ProcessBuf(buf, rs.beg, rs.end, rs.processed, hb, env)

\* detail/read.rs: read_some
read_some(rs, hb, buf, data, pending, env) ==
    CASE rs.tag \in {"Eof", "Close"} -> Outcome(rs, hb, buf, 0, "Ok", 0)
      [] rs.tag = "ReadHead" -> ReadHeadStep(rs, hb, buf, data, pending, env)
      [] rs.tag = "ReadData" -> ReadDataStep(rs, hb, buf, data, pending, env)
      [] rs.tag = "ReadPing" -> ReadPingStep(rs, hb, buf, data, pending, env)
      [] rs.tag = "ProcessBuf" ->
           ProcessBuf(buf, rs.beg, rs.end, rs.processed, hb, env)

\* stream/read.rs: Read::read of the Direct stream
read(rs, hb, buf, data, pending, env) ==
    CASE rs.tag \in {"Eof", "Close"} -> Outcome(rs, hb, buf, 0, "Ok", 0)
      [] rs.tag = "ReadHead" -> ReadHeadStep(rs, hb, buf, data, pending, env)
      [] rs.tag = "ReadData" ->
           LET len == min_len(Len(buf), rs.next)
               read_n == Len(data)
               buf1 == Unmask(rs.mask, Patch(buf, 0, data), 0, len, env.addr)
           IN IF read_n = 0 THEN Outcome(Eof, hb, buf, 0, "Ok", 1)
              ELSE IF rs.next = read_n
              THEN Outcome(ReadState_new, hb, buf1, read_n, "Ok", 1)
              ELSE Outcome(ReadData(rs.next - read_n, rs.mask), hb, buf1, read_n, "Ok", 1)
      [] rs.tag = "ReadPing" -> ReadPingStep(rs, hb, buf, data, pending, env)
      [] rs.tag = "ProcessBuf" ->
           ProcessBuf(buf, rs.beg, rs.end, rs.processed, hb, env)

\* a destination that leaves out as many bytes as a whole head has
ReadRoom_short(rs, hb, buflen, sync) ==
    CASE rs.tag = "ReadHead" -> buflen - HeadCap
      [] rs.tag = "ReadData" -> IF sync THEN min_len(buflen, rs.next) ELSE buflen
      [] rs.tag = "ReadPing" -> IF rs.next > wr_left(hb.ping_store) THEN 0 ELSE rs.next
      [] OTHER -> 0

\* the length of the destination the call hands to the transport read (0
\* also when it issues none)
ReadRoom(rs, hb, buflen, sync) ==
    CASE rs.tag = "ReadHead" -> buflen - rd_left(rs.store)
      [] rs.tag = "ReadData" -> IF sync THEN min_len(buflen, rs.next) ELSE buflen
      [] rs.tag = "ReadPing" -> IF rs.next > wr_left(hb.ping_store) THEN 0 ELSE rs.next
      [] OTHER -> 0

\* does the call issue a transport read at all
ReadsTransport(rs, hb) ==
    \/ rs.tag \in {"ReadHead", "ReadData"}
    \/ rs.tag = "ReadPing" /\ rs.next <= wr_left(hb.ping_store)

(***************************************************************************)
(* role/: the role stamps the mask on outgoing heads                       *)
(***************************************************************************)
Role(kind, key) == [kind |-> kind, key |-> key]

\* RoleHelper::write_mask_key
write_mask_key(role) ==
    CASE role.kind = "Client" -> MaskSkip
      [] role.kind = "Server" -> MaskNone
      [] OTHER -> MaskKey(role.key)

\* RoleHelper::set_write_mask_key: a no-op by default
set_write_mask_key(role, key) ==
    IF role.kind \in {"StandardClient", "FixedMaskClient"}
    THEN [role EXCEPT !.key = key] ELSE role

\* AutoMaskClientRole, in a build with unsafe_auto_mask_write
AutoMaskClientRole(role, env) ==
    env.auto_mask /\ role.kind \in {"StandardClient", "FixedMaskClient"}

\* AutoMaskClientRole::UPDATE_MASK_KEY
UPDATE_MASK_KEY(role) == role.kind = "StandardClient"

(***************************************************************************)
(* The write path.  A write call is given the caller's buffer buf and the  *)
(* transport's answer to the one write it may issue: the number accept of  *)
(* bytes it takes of what is submitted, or pending.  newkey is the value   *)
(* new_mask_key() returns.  The outcome is the new write state and role,   *)
(* the caller's buffer (auto-masking changes it in place), the result, io  *)
(* (transport writes issued) and sent, the bytes the transport took.       *)
(***************************************************************************)
WOutcome(ws, role, buf, ret, err, io, sent) ==
    [ws |-> ws, role |-> role, buf |-> buf, ret |-> ret, err |-> err, io |-> io,
     sent |-> sent]

\* WriteFrameHead::write_data_frame: the head store, the role and the buffer
\* after it
write_data_frame(store, role, buf, newkey, env) ==
    IF AutoMaskClientRole(role, env)
    THEN LET key == IF UPDATE_MASK_KEY(role) THEN newkey
                    ELSE write_mask_key(role).key
             role1 == IF UPDATE_MASK_KEY(role) THEN set_write_mask_key(role, key)
                      ELSE role
             buf1 == apply_mask4(key, buf, env.wbuf_addr)
             bytes == encode_unchecked(
                          FrameHead("Y", "Binary", MaskKey(key), from_num(Len(buf))))
         IN [store |-> set_wr_pos([store EXCEPT !.buf = Patch(store.buf, 0, bytes)],
                                  Len(bytes)),
             role |-> role1, buf |-> buf1]
    ELSE LET bytes == encode_unchecked(
                          FrameHead("Y", "Binary", write_mask_key(role),
                                    from_num(Len(buf))))
         IN [store |-> set_wr_pos([store EXCEPT !.buf = Patch(store.buf, 0, bytes)],
                                  Len(bytes)),
             role |-> role, buf |-> buf]

\* what the call submits to the transport: the iovec, flattened
Submitted(ws, role, buf, newkey, env) ==
    CASE ws.tag = "WriteHead" ->
           LET f == IF is_empty(ws.store)
                    THEN write_data_frame(ws.store, role, buf, newkey, env)
                    ELSE [store |-> ws.store, role |-> role, buf |-> buf]
           IN Store_read(f.store) \o f.buf
      [] ws.tag = "WriteData" -> SubSeq(buf, 1, min_len(Len(buf), ws.next))
      [] OTHER -> <<>>

\* detail/write.rs: write_some
write_some(ws, role, buf, accept, pending, newkey, env) ==
    CASE ws.tag = "WriteZero" -> WOutcome(ws, role, buf, 0, "Ok", 0, <<>>)
      [] ws.tag = "WriteHead" ->
           LET frame_len == Len(buf)
               f == IF is_empty(ws.store)
                    THEN write_data_frame(ws.store, role, buf, newkey, env)
                    ELSE [store |-> ws.store, role |-> role, buf |-> buf]
               head_store == f.store
               iovec == Store_read(head_store) \o f.buf
               write_n == accept
               head_len == rd_left(head_store)
               sent == SubSeq(iovec, 1, write_n)
           IN IF pending THEN WOutcome(ws, f.role, f.buf, 0, "Pending", 1, <<>>)
              ELSE IF write_n = 0
              THEN WOutcome(WriteZero, f.role, f.buf, 0, "Ok", 1, <<>>)
              ELSE IF write_n < head_len
              THEN WOutcome(WriteHead(advance_rd_pos(head_store, write_n)),
                            f.role, f.buf, 0, "Ok", 1, sent)
              ELSE IF write_n - head_len = frame_len
              THEN WOutcome(WriteState_new, f.role, f.buf, write_n - head_len,
                            "Ok", 1, sent)
              ELSE WOutcome(WriteData(frame_len - (write_n - head_len)),
                            f.role, f.buf, write_n - head_len, "Ok", 1, sent)
      [] ws.tag = "WriteData" ->
           LET len == min_len(Len(buf), ws.next)
               write_n == accept
               sent == SubSeq(buf, 1, write_n)
           IN IF pending THEN WOutcome(ws, role, buf, 0, "Pending", 1, <<>>)
              ELSE IF write_n = 0 THEN WOutcome(WriteZero, role, buf, 0, "Ok", 1, <<>>)
              ELSE IF ws.next = write_n
              THEN WOutcome(WriteState_new, role, buf, write_n, "Ok", 1, sent)
              ELSE WOutcome(WriteData(ws.next - write_n), role, buf, write_n,
                            "Ok", 1, sent)

\* Stream::is_write_partial_head
is_write_partial_head(ws) == ws.tag = "WriteHead"

\* Stream::is_write_zero
is_write_zero(ws) == ws.tag = "WriteZero"

\* Stream::is_read_eof
is_read_eof(rs) == rs.tag = "Eof"

\* Stream::is_read_close
is_read_close(rs) == rs.tag = "Close"

\* Stream::is_read_end
is_read_end(rs) == is_read_eof(rs) \/ is_read_close(rs)

\* Stream::is_read_partial_head
is_read_partial_head(rs) == rs.tag = "ReadHead"

\* Stream::ping_data
ping_data(hb) == Store_read(hb.ping_store)

\* Stream::is_ping_completed
is_ping_completed(hb) == hb.is_complete

\* Stream::is_pinged
is_pinged(hb) == ~is_empty(hb.ping_store)

(***************************************************************************)
(* State.                                                                  *)
(***************************************************************************)
VARIABLES
    env,          \* the build and the addresses: fixed for a behaviour
    role,         \* Stream.role
    read_state,   \* Stream.read_state
    write_state,  \* Stream.write_state
    heartbeat,    \* Stream.heartbeat
    rx,           \* the byte image the transport has for reading
    rx_pos,       \* how much of rx the transport has delivered
    tx,           \* the bytes the transport has accepted from writes
    buf,          \* the caller's read buffer
    out,          \* every byte read has surfaced to the caller, in order
    last,         \* the last call: its result and its transport traffic
    frames,       \* the frames rx was made of
    pc,           \* where the caller is
    wbuf,         \* the caller's write buffer
    orig,         \* wbuf as the caller filled it
    call          \* the caller's write call in progress, or its last one

vars == <<env, role, read_state, write_state, heartbeat, rx, rx_pos, tx, buf, out,
          last, frames, pc, wbuf, orig, call>>

Env(sync, addr, ping_addr, wbuf_addr, auto_mask, guard, loopback) ==
    [sync |-> sync, addr |-> addr, ping_addr |-> ping_addr,
     wbuf_addr |-> wbuf_addr, auto_mask |-> auto_mask, guard |-> guard,
     loopback |-> loopback]

\* the orders in which the build's memcpy may move bytes when the call's copy
\* is undefined; the read path of detail/read.rs has no such copy
MemcpyOrders(sync) == IF sync THEN {"ascending", "descending"} ELSE {"ascending"}

\* env for one call, with the order this call's memcpy takes
CallEnv(order) == env @@ [memcpy |-> order]

\* the last call: the operation, the tag of the state it started in, its
\* result, the transport operations it issued and the bytes they moved
Last(op, from, ret, err, io, n) ==
    [op |-> op, from |-> from, ret |-> ret, err |-> err, io |-> io, n |-> n]

\* A write call of the caller: the operation, whether it is running or how it
\* ended, the span beg..end of wbuf it was given, the offset off it has come
\* to, Len(tx) when it began, whether the write state was WriteHead(empty)
\* then, the value returned, and the bytes of the span as the caller gave them.
Call(op, status, beg, end, off, tx0, fresh, ret, given) ==
    [op |-> op, status |-> status, beg |-> beg, end |-> end, off |-> off,
     tx0 |-> tx0, fresh |-> fresh, ret |-> ret, given |-> given]

NoCall == Call("none", "none", 0, 0, 0, 0, TRUE, 0, <<>>)

\* Stream::new
StreamInit ==
    /\ read_state = ReadState_new
    /\ write_state = WriteState_new
    /\ heartbeat = HeartBeat_new

(***************************************************************************)
(* The incoming wire: frames as a peer sends them.                         *)
(***************************************************************************)
\* a mask key that differs in every byte
Key1 == <<1, 2, 4, 8>>
Key2 == <<16, 32, 64, 128>>

\* byte j of the payload of the i-th frame
PayloadByte(i, j) == 16 * (i + 1) + j

Frame(opcode, len, i, mask) ==
    [opcode |-> opcode, mask |-> mask, payload |-> [j \in 1..len |-> PayloadByte(i, j)]]

\* the frames a peer may send in the i-th place
FrameMenu(i, mask) ==
    {Frame("Binary", len, i, mask) : len \in {0, MaxPayload}}
    \cup {Frame("Continue", MaxPayload - 1, i, mask)}
    \cup {Frame("Ping", len, i, mask) : len \in {0, MaxPayload - 1}}
    \cup {Frame(op, 0, i, mask) : op \in {"Close", "Text", "Pong"}}

\* the sequences of at most n frames; a Text or a Pong frame is the last one,
\* as the reader reads nothing past it, and to keep the number of wires down
\* a frame past the second comes after a Ping
RECURSIVE FrameSeqs(_, _)
FrameSeqs(n, mask) ==
    IF n = 0 THEN {<<>>}
    ELSE LET shorter == FrameSeqs(n - 1, mask)
             open == {x \in shorter : /\ Len(x) = n - 1
                                      /\ n > 1 => x[n - 1].opcode \notin {"Text", "Pong"}
                                      /\ n > 2 => x[n - 1].opcode = "Ping"}
         IN shorter \cup {Append(fs, f) : fs \in open, f \in FrameMenu(n, mask)}

\* the fin bit is clear on a frame that a Continuation follows
FinOf(fs, i) == IF i < Len(fs) /\ fs[i + 1].opcode = "Continue" THEN "N" ELSE "Y"

\* test::make_frame_with_mask, with the payload masked as a sender masks it
FrameBytes(fs, i) ==
    encode_unchecked(FrameHead(FinOf(fs, i), fs[i].opcode, fs[i].mask,
                               from_num(Len(fs[i].payload))))
    \o (IF fs[i].mask.kind = "Key" THEN apply_mask(fs[i].mask.key, fs[i].payload)
        ELSE fs[i].payload)

RECURSIVE WireOf(_, _)
WireOf(fs, i) ==
    IF i > Len(fs) THEN <<>> ELSE FrameBytes(fs, i) \o WireOf(fs, i + 1)

\* where the i-th frame ends on the wire
RECURSIVE FrameEnd(_, _)
FrameEnd(fs, i) == IF i = 0 THEN 0 ELSE FrameEnd(fs, i - 1) + Len(FrameBytes(fs, i))

\* where the payload of the i-th frame starts on the wire
PayloadStart(fs, i) == FrameEnd(fs, i) - Len(fs[i].payload)

\* the data the frames carry up to the first Close: what a reader is to see
RECURSIVE DataOf(_, _)
DataOf(fs, i) ==
    IF i > Len(fs) \/ fs[i].opcode = "Close" THEN <<>>
    ELSE (IF fs[i].opcode \in {"Binary", "Continue"} THEN fs[i].payload ELSE <<>>)
         \o DataOf(fs, i + 1)

PeerMasks == {MaskNone, MaskSkip, MaskKey(Key1)}

\* the builds a reading stream is checked under: the two read paths
ReadEnvs == {Env(sync, 0, 2, 0, FALSE, FALSE, FALSE) : sync \in BOOLEAN}

\* a stream that reads what a peer sent
InitRead ==
    /\ StreamInit
    /\ \E mask \in PeerMasks : \E fs \in FrameSeqs(MaxFrames, mask) :
         /\ frames = fs
         /\ rx = WireOf(fs, 1)
         /\ env \in ReadEnvs
    /\ role = Role("Server", NoKey)
    /\ rx_pos = 0
    /\ tx = <<>>
    /\ buf = Zeros(BufLen)
    /\ out = <<>>
    /\ last = Last("none", "none", 0, "Ok", 0, 0)
    /\ pc = "idle"
    /\ wbuf = <<>>
    /\ orig = <<>>
    /\ call = NoCall

(***************************************************************************)
(* The transport, read side: a read into a destination of room bytes       *)
(* delivers between 1 and room of the bytes it has, or none: the end of    *)
(* the stream, which the peer may bring about after any byte.              *)
(***************************************************************************)
TransportRead(room, may_end) ==
    LET avail == Len(rx) - rx_pos
    IN IF room = 0 \/ avail = 0 THEN {0}
       ELSE (1..Min(room, avail)) \cup (IF may_end THEN {0} ELSE {})

\* one call of read on the Direct stream, with the transport delivering n
\* bytes or reporting pending
DoRead(n, pending, order) ==
    LET data == Slice(rx, rx_pos, rx_pos + n)
    IN IF env.sync
       THEN read(read_state, heartbeat, buf, data, pending, CallEnv(order))
       ELSE read_some(read_state, heartbeat, buf, data, pending, CallEnv(order))

\* The call's effect on the stream and on the caller: the bytes returned are
\* appended to out.  buf is the buffer the caller hands to the next call: a
\* cleared one, or after an error the one the failed call used.
ApplyRead(r, n, op) ==
    /\ read_state' = r.rs
    /\ heartbeat' = r.hb
    /\ buf' = IF r.rs.tag = "ProcessBuf" THEN r.buf ELSE Zeros(BufLen)
    /\ rx_pos' = IF r.io = 1 /\ r.err # "Pending" THEN rx_pos + n ELSE rx_pos
    /\ out' = IF r.err = "Ok" THEN out \o SubSeq(r.buf, 1, r.ret) ELSE out
    /\ last' = Last(op, read_state.tag, r.ret, r.err, r.io, IF r.io = 1 THEN n ELSE 0)

\* Read::read / AsyncRead::poll_read of the Direct stream
ReadCall ==
    /\ pc = "idle"
    /\ \E n \in TransportRead(ReadRoom(read_state, heartbeat, Len(buf), env.sync), TRUE),
          pending \in IF env.sync THEN {FALSE} ELSE BOOLEAN :
         /\ pending => n = 0 /\ ReadsTransport(read_state, heartbeat)
         /\ \E r \in {DoRead(n, pending, order) : order \in MemcpyOrders(env.sync)} :
               ApplyRead(r, n, "read")
    /\ UNCHANGED <<env, role, write_state, rx, tx, frames, pc, wbuf, orig, call>>

NextRead == ReadCall

SpecRead == InitRead /\ [][NextRead]_vars

\* Read::read_to_end: one turn of its loop.  It reads into the spare capacity
\* of the vector, which it keeps above 14 bytes, appends what was filled and
\* returns when nothing was filled and the stream is at its end.
ReadToEnd ==
    /\ pc = "read_to_end"
    /\ \E n \in TransportRead(ReadRoom(read_state, heartbeat, Len(buf), env.sync), TRUE) :
         \E r \in {DoRead(n, FALSE, order) : order \in MemcpyOrders(env.sync)} :
            /\ ApplyRead(r, n, "read_to_end")
            /\ pc' = IF r.err # "Ok" THEN "failed"
                     ELSE IF r.ret = 0 /\ is_read_end(r.rs) THEN "returned"
                     ELSE "read_to_end"
    /\ UNCHANGED <<env, role, write_state, rx, tx, frames, wbuf, orig, call>>

\* the wires of MaxFrames data frames, the last of which may be a Close
DataSeqs(mask) ==
    LET data(i) == {f \in FrameMenu(i, mask) : f.opcode \in {"Binary", "Continue"}}
        last_one(i) == {f \in FrameMenu(i, mask) :
                           f.opcode \in {"Binary", "Continue", "Close"}}
    IN {fs \in [1..MaxFrames -> UNION {FrameMenu(i, mask) : i \in 1..MaxFrames}] :
           /\ \A i \in 1..(MaxFrames - 1) : fs[i] \in data(i)
           /\ fs[MaxFrames] \in last_one(MaxFrames)}

\* a fresh sync stream whose caller calls read_to_end
InitReadToEnd ==
    /\ StreamInit
    /\ \E mask \in PeerMasks : \E fs \in FrameSeqs(MaxFrames, mask) \cup DataSeqs(mask) :
         /\ frames = fs
         /\ rx = WireOf(fs, 1)
         /\ env \in {e \in ReadEnvs : e.sync}
    /\ role = Role("Server", NoKey)
    /\ rx_pos = 0
    /\ tx = <<>>
    /\ buf = Zeros(BufLen)
    /\ out = <<>>
    /\ last = Last("none", "none", 0, "Ok", 0, 0)
    /\ pc = "read_to_end"
    /\ wbuf = <<>>
    /\ orig = <<>>
    /\ call = NoCall

NextReadToEnd == ReadToEnd

SpecReadToEnd == InitReadToEnd /\ [][NextReadToEnd]_vars

(***************************************************************************)
(* The Guarded stream, read side: AsyncRead::poll_read wraps read_some in  *)
(* a loop.  pc is "guarded" while the loop is to take another turn.        *)
(***************************************************************************)
GuardedReadEnv == Env(FALSE, 0, 2, 0, FALSE, TRUE, FALSE)

InitGuardedRead ==
    /\ StreamInit
    /\ \E mask \in PeerMasks : \E fs \in FrameSeqs(MaxFrames, mask) :
         /\ frames = fs
         /\ rx = WireOf(fs, 1)
    /\ env = GuardedReadEnv
    /\ role = Role("Server", NoKey)
    /\ rx_pos = 0
    /\ tx = <<>>
    /\ buf = Zeros(BufLen)
    /\ out = <<>>
    /\ last = Last("none", "none", 0, "Ok", 0, 0)
    /\ pc = "idle"
    /\ wbuf = <<>>
    /\ orig = <<>>
    /\ call = NoCall

\* One turn of the loop of poll_read: read_some, and again while it returns
\* Ok(0) with the state a ReadHead; any other result returns to the caller.
GuardedRead ==
    /\ pc \in {"idle", "guarded"}
    /\ \E n \in TransportRead(ReadRoom(read_state, heartbeat, Len(buf), env.sync), TRUE),
          pending \in BOOLEAN :
         /\ pending => n = 0 /\ ReadsTransport(read_state, heartbeat)
         /\ \E r \in {DoRead(n, pending, order) : order \in MemcpyOrders(env.sync)} :
               /\ ApplyRead(r, n, "read")
               /\ pc' = IF r.err = "Ok" /\ r.ret = 0 /\ is_read_partial_head(r.rs)
                        THEN "guarded" ELSE "idle"
    /\ UNCHANGED <<env, role, write_state, rx, tx, frames, wbuf, orig, call>>

NextGuardedRead == GuardedRead

SpecGuardedRead == InitGuardedRead /\ [][NextGuardedRead]_vars

(***************************************************************************)
(* A caller that reads on after a read has failed.  A failed read leaves    *)
(* the state it was in, a ProcessBuf, and the next read runs on the buffer *)
(* it is given: the one of the failed call or another one.                 *)
(***************************************************************************)
\* error/frame.rs: the values of FrameError that read returns
FrameErrors == {"IllegalFin", "IllegalOpCode", "IllegalData", "UnsupportedOpcode"}

\* the buffers the caller may pass: the one at hand, and after a failed read
\* a cleared one of the same length
CallerBufs == IF read_state.tag = "ProcessBuf" THEN {buf, Zeros(BufLen)} ELSE {buf}

\* one call of read on the Direct stream into the buffer b
ReadInto(b, n, pending, order) ==
    LET data == Slice(rx, rx_pos, rx_pos + n)
    IN IF env.sync
       THEN read(read_state, heartbeat, b, data, pending, CallEnv(order))
       ELSE read_some(read_state, heartbeat, b, data, pending, CallEnv(order))

\* Read::read / AsyncRead::poll_read, by a caller that remembers in pc that a
\* read has returned a frame error
ReadOn ==
    /\ pc \in {"idle", "failed"}
    /\ \E b \in CallerBufs,
          n \in TransportRead(ReadRoom(read_state, heartbeat, Len(buf), env.sync), TRUE),
          pending \in IF env.sync THEN {FALSE} ELSE BOOLEAN :
         /\ pending => n = 0 /\ ReadsTransport(read_state, heartbeat)
         /\ \E r \in {ReadInto(b, n, pending, order) : order \in MemcpyOrders(env.sync)} :
               /\ ApplyRead(r, n, "read")
               /\ pc' = IF r.err \in FrameErrors THEN "failed" ELSE pc
    /\ UNCHANGED <<env, role, write_state, rx, tx, frames, wbuf, orig, call>>

NextReadOn == ReadOn

SpecReadOn == InitRead /\ [][NextReadOn]_vars

(***************************************************************************)
(* The write side: a caller that writes spans of its buffer wbuf.          *)
(***************************************************************************)
\* RoleHelper::new of the client roles with a key
Key9 == <<9, 9, 9, 9>>

WriteRoles ==
    {Role("Client", NoKey), Role("Server", NoKey),
     Role("StandardClient", Key9), Role("FixedMaskClient", Key9)}

\* the builds a writing stream is checked under: sync or async, Direct or
\* Guarded, with or without unsafe_auto_mask_write for the roles it concerns
WriteEnvs(r) ==
    {Env(sync, 0, 2, 0, am, guard, FALSE) :
        sync \in BOOLEAN, guard \in BOOLEAN,
        am \in IF r.kind \in {"StandardClient", "FixedMaskClient"} THEN BOOLEAN
               ELSE {FALSE}}

\* the caller's data
WData == [k \in 1..MaxWrite |-> 96 + k]

InitWrite ==
    /\ StreamInit
    /\ role \in WriteRoles
    /\ env \in WriteEnvs(role)
    /\ frames = <<>>
    /\ rx = <<>>
    /\ rx_pos = 0
    /\ tx = <<>>
    /\ buf = Zeros(BufLen)
    /\ out = <<>>
    /\ last = Last("none", "none", 0, "Ok", 0, 0)
    /\ pc = "idle"
    /\ wbuf = WData
    /\ orig = WData
    /\ call = NoCall

\* the transport, write side: of total bytes submitted it accepts any number
TransportWrite(total) == 0..total

\* the values new_mask_key() may return to a call that asks for one
NewKeys == IF AutoMaskClientRole(role, env) /\ UPDATE_MASK_KEY(role)
           THEN {Key1, Key2} ELSE {Key1}

\* one call of write_some on the span data of wbuf that starts at offset at
DoWrite(data, at, accept, pending, newkey) ==
    write_some(write_state, role, data, accept, pending, newkey,
               [env EXCEPT !.wbuf_addr = env.wbuf_addr + at])

\* the transport's answers to the call: the bytes accepted, or pending.  A
\* task is polled again when the transport woke it, so the transport is taken
\* to be ready in the call that follows a pending one.
WriteAnswers(data, at, newkey) ==
    {<<accept, FALSE>> :
        accept \in TransportWrite(Len(Submitted(write_state, role, data, newkey,
                                  [env EXCEPT !.wbuf_addr = env.wbuf_addr + at])))}
    \cup (IF env.sync \/ is_write_zero(write_state) \/ last.err = "Pending"
          THEN {} ELSE {<<0, TRUE>>})

\* the caller fills wbuf anew before the call, or leaves it as the last call
\* left it
Refills == IF wbuf = orig THEN {FALSE} ELSE BOOLEAN

\* the span <<beg, end>> of wbuf the caller hands to a call: the first bytes
\* of wbuf, or what the last call left of its span
Spans == {<<0, end>> : end \in 0..MaxWrite} \cup {<<call.off, call.end>>}

ApplyWrite(r, base, at, op) ==
    /\ write_state' = r.ws
    /\ role' = r.role
    /\ wbuf' = Patch(base, at, r.buf)
    /\ tx' = tx \o r.sent
    /\ last' = Last(op, write_state.tag, r.ret, r.err, r.io, Len(r.sent))

\* Write::write / AsyncWrite::poll_write of the Direct stream
DirectWrite ==
    /\ pc = "idle" /\ ~env.guard /\ Len(tx) < MaxTx
    /\ \E refill \in Refills, span \in Spans, newkey \in NewKeys :
         LET base == IF refill THEN orig ELSE wbuf
             beg == span[1]
             end == span[2]
             data == Slice(base, beg, end)
         IN \E a \in WriteAnswers(data, beg, newkey) :
            \E r \in {DoWrite(data, beg, a[1], a[2], newkey)} :
              /\ ApplyWrite(r, base, beg, "write")
              /\ call' = Call("write", r.err, beg, end, beg + r.ret, Len(tx),
                              write_state = WriteState_new, r.ret, data)
    /\ UNCHANGED <<env, read_state, heartbeat, rx, rx_pos, buf, out, frames, pc, orig>>

\* The caller of a Guarded stream calls write, or (sync) Write::write_all,
\* which returns at once when the span is empty.
GuardedBegin ==
    /\ pc = "idle" /\ env.guard /\ Len(tx) < MaxTx
    /\ \E refill \in Refills, span \in Spans,
          op \in IF env.sync THEN {"write", "write_all"} ELSE {"write"} :
         LET base == IF refill THEN orig ELSE wbuf
             beg == span[1]
             end == span[2]
             done == op = "write_all" /\ beg = end
         IN /\ wbuf' = base
            /\ pc' = IF done THEN "idle" ELSE "guarded"
            /\ call' = Call(op, IF done THEN "Ok" ELSE "running", beg, end, beg,
                            Len(tx), write_state = WriteState_new, 0,
                            Slice(base, beg, end))
            /\ last' = Last(op, write_state.tag, 0, "Ok", 0, 0)
    /\ UNCHANGED <<env, role, read_state, write_state, heartbeat, rx, rx_pos, tx, buf,
                   out, frames, orig>>

\* a loop that never takes another turn
GuardedWriteAgain_never(r) == FALSE

\* the loop of the Guarded write takes another turn:
\* Ok(0) if is_write_partial_head() || !is_write_zero()
GuardedWriteAgain(r) ==
    /\ r.err = "Ok" /\ r.ret = 0
    /\ is_write_partial_head(r.ws) \/ ~is_write_zero(r.ws)

\* One turn of the loop of the Guarded write: write_some, and again while it
\* returns Ok(0) in a state that is not WriteZero.  Within write_all the value
\* returned moves the span on, and 0 ends it with ErrorKind::WriteZero.
GuardedStep ==
    /\ pc = "guarded" /\ Len(tx) < call.tx0 + MaxCallTx
    /\ \E newkey \in NewKeys :
         LET data == Slice(wbuf, call.off, call.end)
         IN \E a \in WriteAnswers(data, call.off, newkey) :
            \E r \in {DoWrite(data, call.off, a[1], a[2], newkey)} :
              LET again == GuardedWriteAgain(r)
                  c == [call EXCEPT !.off = @ + r.ret]
              IN /\ ApplyWrite(r, wbuf, call.off, call.op)
                 /\ call' = CASE again -> c
                              [] r.err # "Ok" -> [c EXCEPT !.status = r.err]
                              [] call.op = "write" ->
                                   [c EXCEPT !.status = "Ok", !.ret = r.ret]
                              [] r.ret = 0 -> [c EXCEPT !.status = "WriteZero"]
                              [] c.off = c.end ->
                                   [c EXCEPT !.status = "Ok", !.ret = c.end - c.beg]
                              [] OTHER -> c
                 /\ pc' = IF call'.status = "running" THEN "guarded" ELSE "idle"
    /\ UNCHANGED <<env, read_state, heartbeat, rx, rx_pos, buf, out, frames, orig>>

NextWrite == DirectWrite \/ GuardedBegin \/ GuardedStep

SpecWrite == InitWrite /\ [][NextWrite]_vars

(***************************************************************************)
(* A stream that reads Ping frames of the lengths about the limit of 125.  *)
(***************************************************************************)
\* the payload lengths of the Ping frames: none, one byte, the longest a
\* Ping may carry and the first length that needs an extended head
PingLens == {0, 1, MaxPingLen, MaxPingLen + 1}

\* the masks of the Ping frames; the key is the same in every byte, so that
\* the ping store holds one content per byte received
PingMasks == {MaskNone, MaskSkip, MaskKey(Key9)}

\* a Ping frame, alone or after a short one
PingSeqs(mask) ==
    {<<Frame("Ping", len, 1, mask)>> : len \in PingLens}
    \cup {<<Frame("Ping", MaxPayload - 1, 1, mask), Frame("Ping", len, 2, mask)>> :
             len \in PingLens}

InitPing ==
    /\ StreamInit
    /\ \E mask \in PingMasks : \E fs \in PingSeqs(mask) :
         /\ frames = fs
         /\ rx = WireOf(fs, 1)
         /\ env \in ReadEnvs
    /\ role = Role("Server", NoKey)
    /\ rx_pos = 0
    /\ tx = <<>>
    /\ buf = Zeros(BufLen)
    /\ out = <<>>
    /\ last = Last("none", "none", 0, "Ok", 0, 0)
    /\ pc = "idle"
    /\ wbuf = <<>>
    /\ orig = <<>>
    /\ call = NoCall

\* what the transport delivers to a read with room for room bytes: a chunk
\* of at most MaxChunk bytes, all it can, or the end of the stream
PingChunks(room) ==
    {n \in TransportRead(room, TRUE) :
        n <= MaxChunk \/ n = Min(room, Len(rx) - rx_pos)}

\* Read::read / AsyncRead::poll_read of the Direct stream
PingRead ==
    /\ pc = "idle"
    /\ \E n \in PingChunks(ReadRoom(read_state, heartbeat, Len(buf), env.sync)),
          pending \in IF env.sync THEN {FALSE} ELSE BOOLEAN :
         /\ pending => n = 0 /\ ReadsTransport(read_state, heartbeat)
         /\ \E r \in {DoRead(n, pending, order) : order \in MemcpyOrders(env.sync)} :
               ApplyRead(r, n, "read")
    /\ UNCHANGED <<env, role, write_state, rx, tx, frames, pc, wbuf, orig, call>>

NextPing == PingRead

SpecPing == InitPing /\ [][NextPing]_vars

(***************************************************************************)
(* A stream that reads frames whose fin bits the peer sets as it likes.    *)
(***************************************************************************)
\* the frames fs, each with the fin bit of fins
WithFin(fs, fins) ==
    [i \in 1..Len(fs) |-> [opcode |-> fs[i].opcode, mask |-> fs[i].mask,
                           payload |-> fs[i].payload, fin |-> fins[i]]]

\* test::make_frame_with_mask, with the fin bit the frame names
FrameBytesFin(f) ==
    encode_unchecked(FrameHead(f.fin, f.opcode, f.mask, from_num(Len(f.payload))))
    \o (IF f.mask.kind = "Key" THEN apply_mask(f.mask.key, f.payload) ELSE f.payload)

RECURSIVE WireFin(_, _)
WireFin(fs, i) ==
    IF i > Len(fs) THEN <<>> ELSE FrameBytesFin(fs[i]) \o WireFin(fs, i + 1)

InitFin ==
    /\ StreamInit
    /\ \E mask \in PeerMasks : \E fs \in FrameSeqs(MaxFrames - 1, mask) :
       \E fins \in [1..Len(fs) -> {"Y", "N"}] :
         /\ frames = WithFin(fs, fins)
         /\ rx = WireFin(frames, 1)
         /\ env \in ReadEnvs
    /\ role = Role("Server", NoKey)
    /\ rx_pos = 0
    /\ tx = <<>>
    /\ buf = Zeros(BufLen)
    /\ out = <<>>
    /\ last = Last("none", "none", 0, "Ok", 0, 0)
    /\ pc = "idle"
    /\ wbuf = <<>>
    /\ orig = <<>>
    /\ call = NoCall

SpecFin == InitFin /\ [][NextRead]_vars

(***************************************************************************)
(* The frame head codec on its own: a head is encoded into a buffer, by    *)
(* encode and by encode_unchecked, and the buffer is decoded; or a buffer  *)
(* of any bytes is decoded.                                                *)
(***************************************************************************)
\* the lengths a buffer to encode into may have, and what fills it
EncodeCaps == {1, 3, HeadCap - 1, HeadCap, HeadCap + MaxExtra}
Fills == {0, 255}

\* the payload lengths a head may announce: about the limits of the three
\* encodings
LenMenu == {0, 1, 125, 126, 127, 255, 256, 65535, 65536, 65537, MaxLenValue}

\* Mask: no mask, the zero key, and keys that are not zero
CodecKey == <<0, 0, 0, 1>>
CodecMasks == {MaskNone, MaskSkip, MaskKey(Key1), MaskKey(CodecKey)}

\* the first two bytes of a buffer to decode: every low nibble under legal and
\* illegal high nibbles, and the length flags about 126 with and without the
\* mask bit
RawFlags == {16 * h + l : h \in {0, 8, 1, 7, 9, 15}, l \in 0..15}
RawLens == {0, 125, 126, 127, 128, 253, 254, 255}

\* what follows them: a prefix of one of these
RawTails == {Zeros(HeadCap - 2), <<0, 0, 0, 0, 0, 0, 1, 2, 3, 4, 5, 6>>}

RawBufs ==
    {<<>>} \cup {<<b0>> : b0 \in RawFlags}
    \cup {<<b0, b1>> \o SubSeq(t, 1, k) :
             b0 \in RawFlags, b1 \in RawLens, t \in RawTails, k \in 0..(HeadCap - 2)}

\* the state before a head is encoded into buf, or before buf is decoded
InitCodec ==
    /\ StreamInit
    /\ \/ /\ pc = "head"
          /\ \E cap \in EncodeCaps, fill \in Fills : buf = [i \in 1..cap |-> fill]
       \/ /\ pc = "raw"
          /\ buf \in RawBufs
    /\ env = Env(TRUE, 0, 2, 0, FALSE, FALSE, FALSE)
    /\ role = Role("Server", NoKey)
    /\ rx = <<>>
    /\ rx_pos = 0
    /\ tx = <<>>
    /\ out = <<>>
    /\ last = Last("none", "none", 0, "Ok", 0, 0)
    /\ frames = <<>>
    /\ wbuf = <<>>
    /\ orig = <<>>
    /\ call = NoCall

\* FrameHead::new with PayloadLen::from_num(n), then FrameHead::encode into
\* buf.  frames holds the head, rx_pos the number n and tx the bytes written.
Encode ==
    /\ pc = "head"
    /\ \E fin \in {"Y", "N"},
          opcode \in {"Continue", "Text", "Binary", "Close", "Ping", "Pong"},
          mask \in CodecMasks, n \in LenMenu :
         LET h == FrameHead(fin, opcode, mask, from_num(n))
         IN \E r \in {encode(h, buf)} :
              /\ frames' = <<h>>
              /\ rx_pos' = n
              /\ buf' = r.buf
              /\ tx' = SubSeq(r.buf, 1, r.n)
              /\ last' = Last("encode", pc, r.n, r.err, 0, 0)
    /\ pc' = "encoded"
    /\ UNCHANGED <<env, role, read_state, write_state, heartbeat, rx, out, wbuf,
                   orig, call>>

\* FrameHead::encode_unchecked of the same head into a head store, as
\* write_data_frame calls it.  wbuf holds the store's buffer and call.ret the
\* count returned; a count past the store is a write past its end.
EncodeUnchecked ==
    /\ pc = "encoded"
    /\ \E bytes \in {encode_unchecked(frames[1])} :
         /\ wbuf' = Patch(Zeros(HeadCap), 0, bytes)
         /\ call' = [NoCall EXCEPT !.ret = Len(bytes)]
         /\ pc' = IF Len(bytes) > HeadCap THEN "overrun" ELSE "both"
    /\ UNCHANGED <<env, role, read_state, write_state, heartbeat, rx, rx_pos, tx,
                   buf, out, last, frames, orig>>

\* FrameHead::decode of buf: of the head encode wrote with what the buffer
\* holds after it, or of the bytes the buffer was filled with.  frames takes
\* the head decoded.
Decode ==
    /\ \/ pc = "both" /\ last.err = "Ok"
       \/ pc = "raw"
    /\ \E d \in {decode(buf)} :
         /\ frames' = Append(frames, d.head)
         /\ last' = Last("decode", pc, d.n, d.err, 0, 0)
    /\ pc' = "decoded"
    /\ UNCHANGED <<env, role, read_state, write_state, heartbeat, rx, rx_pos, tx,
                   buf, out, wbuf, orig, call>>

NextCodec == Encode \/ EncodeUnchecked \/ Decode

SpecCodec == InitCodec /\ [][NextCodec]_vars

(***************************************************************************)
(* The two masks on their own: a buffer that starts at any alignment is    *)
(* masked byte by byte in wbuf, and word by word in buf, twice.             *)
(***************************************************************************)
\* the keys: ones that differ in every byte, and ones with a zero byte
MaskKeys == {Key1, Key2, CodecKey, <<255, 0, 128, 7>>}

\* the buffers: byte i of the two images, at every length up to MaskLen
MaskBufs ==
    {[i \in 1..n |-> (37 * i + c) % 256] : n \in 0..MaskLen, c \in {0, 200}}

InitMask ==
    /\ StreamInit
    /\ \E key \in MaskKeys, addr \in 0..3, data \in MaskBufs :
         /\ role = Role("StandardClient", key)
         /\ env = Env(TRUE, addr, 2, 0, FALSE, FALSE, FALSE)
         /\ buf = data
         /\ wbuf = data
         /\ orig = data
    /\ pc = "idle"
    /\ rx = <<>>
    /\ rx_pos = 0
    /\ tx = <<>>
    /\ out = <<>>
    /\ last = Last("none", "none", 0, "Ok", 0, 0)
    /\ frames = <<>>
    /\ call = NoCall

\* apply_mask(key, wbuf)
ApplyMask ==
    /\ pc = "idle"
    /\ wbuf' = apply_mask(role.key, wbuf)
    /\ pc' = "bytewise"
    /\ UNCHANGED <<env, role, read_state, write_state, heartbeat, rx, rx_pos, tx,
                   buf, out, last, frames, orig, call>>

\* apply_mask4(key, buf), a first and a second time
ApplyMask4 ==
    /\ pc \in {"bytewise", "once"}
    /\ buf' = apply_mask4(role.key, buf, env.addr)
    /\ pc' = IF pc = "bytewise" THEN "once" ELSE "twice"
    /\ UNCHANGED <<env, role, read_state, write_state, heartbeat, rx, rx_pos, tx,
                   out, last, frames, wbuf, orig, call>>

NextMask == ApplyMask \/ ApplyMask4

SpecMask == InitMask /\ [][NextMask]_vars

(***************************************************************************)
(* One Direct stream that a caller reads and writes in any order: rx is    *)
(* what the peer sent, tx what the stream has written.                     *)
(***************************************************************************)
\* struct Stream: the fields the calls work on
StreamOf ==
    [read_state |-> read_state, write_state |-> write_state,
     heartbeat |-> heartbeat, role |-> role]

\* a read that leaves the stream as Stream::new makes it, but for the read
\* state and the heartbeat
AfterRead_renewed(st, r) ==
    [read_state |-> r.rs, write_state |-> WriteState_new, heartbeat |-> r.hb,
     role |-> st.role]

\* read_some: the fields it assigns are read_state and heartbeat
AfterRead(st, r) == [st EXCEPT !.read_state = r.rs, !.heartbeat = r.hb]

\* write_some: the fields it assigns are write_state and, through
\* write_data_frame, the role
AfterWrite(st, r) == [st EXCEPT !.write_state = r.ws, !.role = r.role]

\* a role whose key a write renews
DuplexRoles == {Role("StandardClient", Key9)}

\* what the peer sent: a data frame or a Ping, with a key
DuplexFrames ==
    {Frame("Binary", MaxPayload, 1, MaskKey(Key1)),
     Frame("Ping", MaxPayload - 1, 1, MaskKey(Key1))}

InitDuplex ==
    /\ StreamInit
    /\ \E f \in DuplexFrames :
         /\ frames = <<f>>
         /\ rx = WireOf(<<f>>, 1)
    /\ role \in DuplexRoles
    /\ env \in {e \in WriteEnvs(role) : ~e.guard /\ ~e.auto_mask}
    /\ rx_pos = 0
    /\ tx = <<>>
    /\ buf = Zeros(BufLen)
    /\ out = <<>>
    /\ last = Last("none", "none", 0, "Ok", 0, 0)
    /\ pc = "idle"
    /\ wbuf = WData
    /\ orig = WData
    /\ call = NoCall

\* Read::read / AsyncRead::poll_read on the stream
DuplexRead ==
    /\ pc = "idle"
    /\ \E n \in TransportRead(ReadRoom(read_state, heartbeat, Len(buf), env.sync), TRUE),
          pending \in IF env.sync THEN {FALSE} ELSE BOOLEAN :
         /\ pending => n = 0 /\ ReadsTransport(read_state, heartbeat)
         /\ \E r \in {DoRead(n, pending, order) : order \in MemcpyOrders(env.sync)} :
            \E st \in {AfterRead(StreamOf, r)} :
               /\ read_state' = st.read_state
               /\ write_state' = st.write_state
               /\ heartbeat' = st.heartbeat
               /\ role' = st.role
               /\ buf' = IF r.rs.tag = "ProcessBuf" THEN r.buf ELSE Zeros(BufLen)
               /\ rx_pos' = IF r.io = 1 /\ r.err # "Pending" THEN rx_pos + n ELSE rx_pos
               /\ out' = IF r.err = "Ok" THEN out \o SubSeq(r.buf, 1, r.ret) ELSE out
               /\ last' = Last("read", read_state.tag, r.ret, r.err, r.io,
                               IF r.io = 1 THEN n ELSE 0)
    /\ UNCHANGED <<env, rx, tx, frames, pc, wbuf, orig, call>>

\* the span of wbuf the caller hands to a write: all of wbuf, or what the
\* last write left of its span
DuplexSpans == {<<0, MaxWrite>>, <<call.off, call.end>>}

\* Write::write / AsyncWrite::poll_write on the stream
DuplexWrite ==
    /\ pc = "idle" /\ Len(tx) < MaxTx
    /\ \E refill \in Refills, span \in DuplexSpans, newkey \in NewKeys :
         LET base == IF refill THEN orig ELSE wbuf
             beg == span[1]
             end == span[2]
             data == Slice(base, beg, end)
         IN \E a \in WriteAnswers(data, beg, newkey) :
            \E r \in {DoWrite(data, beg, a[1], a[2], newkey)} :
            \E st \in {AfterWrite(StreamOf, r)} :
              /\ read_state' = st.read_state
              /\ write_state' = st.write_state
              /\ heartbeat' = st.heartbeat
              /\ role' = st.role
              /\ wbuf' = Patch(base, beg, r.buf)
              /\ tx' = tx \o r.sent
              /\ last' = Last("write", write_state.tag, r.ret, r.err, r.io, Len(r.sent))
              /\ call' = Call("write", r.err, beg, end, beg + r.ret, Len(tx),
                              write_state = WriteState_new, r.ret, data)
    /\ UNCHANGED <<env, rx, rx_pos, buf, out, frames, pc, orig>>

NextDuplex == DuplexRead \/ DuplexWrite

SpecDuplex == InitDuplex /\ [][NextDuplex]_vars

(***************************************************************************)
(* tests/sync_bidi_copy.rs: the relay's copy from the client to the        *)
(* server.  std::io::copy reads from ws_local_read into its buffer,        *)
(* returns when a read returns Ok(0) and hands what was read to write_all  *)
(* of ws_remote_write, which fails when a write returns Ok(0).  The read   *)
(* state is that of ws_local_read, the write state and the role those of   *)
(* ws_remote_write; rx is what the client sent, before it closed, and tx   *)
(* what the relay has sent to the server.                                  *)
(***************************************************************************)
\* ECHO_DATA, the i-th time the client writes it
EchoFrame(i) == Frame("Binary", MaxPayload, i, MaskSkip)

InitRelay ==
    /\ StreamInit
    /\ \E k \in 1..Rounds :
         /\ frames = [i \in 1..k |-> EchoFrame(i)]
         /\ rx = WireOf(frames, 1)
    /\ role = Role("Client", NoKey)
    /\ env = Env(TRUE, 0, 2, 0, FALSE, FALSE, FALSE)
    /\ rx_pos = 0
    /\ tx = <<>>
    /\ buf = Zeros(BufLen)
    /\ out = <<>>
    /\ last = Last("none", "none", 0, "Ok", 0, 0)
    /\ pc = "idle"
    /\ wbuf = <<>>
    /\ orig = <<>>
    /\ call = NoCall

\* io::copy: the read of one turn.  Ok(0) or an error ends the copy; what
\* was read is handed to write_all.
RelayRead ==
    /\ pc = "idle"
    /\ \E n \in TransportRead(ReadRoom(read_state, heartbeat, Len(buf), env.sync), FALSE) :
       \E r \in {DoRead(n, FALSE, order) : order \in MemcpyOrders(env.sync)} :
         /\ ApplyRead(r, n, "read")
         /\ pc' = IF r.err # "Ok" \/ r.ret = 0 THEN "stopped" ELSE "forward"
         /\ wbuf' = SubSeq(r.buf, 1, r.ret)
         /\ orig' = SubSeq(r.buf, 1, r.ret)
         /\ call' = Call("write_all", "running", 0, r.ret, 0, Len(tx),
                         write_state = WriteState_new, 0, SubSeq(r.buf, 1, r.ret))
    /\ UNCHANGED <<env, role, write_state, rx, tx, frames>>

\* io::copy: one write of write_all on the Direct stream.  Ok(0) ends
\* write_all with ErrorKind::WriteZero, and the copy with it.
RelayWrite ==
    /\ pc = "forward"
    /\ \E newkey \in NewKeys :
         LET data == Slice(wbuf, call.off, call.end)
         IN \E a \in WriteAnswers(data, call.off, newkey) :
            \E r \in {DoWrite(data, call.off, a[1], a[2], newkey)} :
              LET c == [call EXCEPT !.off = @ + r.ret]
              IN /\ ApplyWrite(r, wbuf, call.off, "write_all")
                 /\ call' = CASE r.err # "Ok" -> [c EXCEPT !.status = r.err]
                              [] r.ret = 0 -> [c EXCEPT !.status = "WriteZero"]
                              [] c.off = c.end ->
                                   [c EXCEPT !.status = "Ok", !.ret = c.end - c.beg]
                              [] OTHER -> c
                 /\ pc' = CASE call'.status = "running" -> "forward"
                            [] call'.status = "Ok" -> "idle"
                            [] OTHER -> "stopped"
    /\ UNCHANGED <<env, read_state, heartbeat, rx, rx_pos, buf, out, frames, orig>>

NextRelay == RelayRead \/ RelayWrite

SpecRelay == InitRelay /\ [][NextRelay]_vars

(***************************************************************************)
(* The Direct stream: a caller that reads what a peer sent, or one that    *)
(* writes its data.                                                        *)
(***************************************************************************)
InitDirect == InitRead \/ (InitWrite /\ ~env.guard)

\* a call of read, by the caller that has no data to write
DirectReadCall == orig = <<>> /\ ReadCall

\* a call of write, by the caller that has data
DirectWriteCall == orig # <<>> /\ DirectWrite

NextDirect == DirectReadCall \/ DirectWriteCall

SpecDirect == InitDirect /\ [][NextDirect]_vars

(***************************************************************************)
(* stream/ctrl.rs: the caller sets the mask key between its writes.        *)
(***************************************************************************)
\* set_write_mask without the test for an empty head store
set_write_mask_any_head(ws, r, key) ==
    IF ws.tag = "WriteHead"
    THEN [role |-> set_write_mask_key(r, key), err |-> "Ok"]
    ELSE [role |-> r, err |-> "SetMaskInWrite"]

\* Stream::set_write_mask: the role after the call and the result
set_write_mask(ws, r, key) ==
    IF ws.tag = "WriteHead" /\ is_empty(ws.store)
    THEN [role |-> set_write_mask_key(r, key), err |-> "Ok"]
    ELSE [role |-> r, err |-> "SetMaskInWrite"]

\* the keys the caller sets
CtrlKeys == {Key2}

InitCtrl ==
    /\ InitWrite
    /\ role.kind \in {"Server", "StandardClient"}
    /\ env.sync /\ ~env.guard

SetMaskKey ==
    /\ pc = "idle"
    /\ \E key \in CtrlKeys :
         LET r == set_write_mask(write_state, role, key)
         IN /\ role' = r.role
            /\ last' = Last("set_mask_key", write_state.tag, 0, r.err, 0, 0)
    /\ UNCHANGED <<env, read_state, write_state, heartbeat, rx, rx_pos, tx, buf, out,
                   frames, pc, wbuf, orig, call>>

NextCtrl == DirectWrite \/ SetMaskKey

SpecCtrl == InitCtrl /\ [][NextCtrl]_vars

(***************************************************************************)
(* test::read_write_stream: one Direct stream over a buffer that is        *)
(* written to and read from; the caller writes until a write returns n >   *)
(* 0, reads until the buffer is drained, and compares what it read with    *)
(* the n bytes written.                                                    *)
(***************************************************************************)
InitLoop ==
    /\ StreamInit
    /\ role \in {Role("Client", NoKey), Role("Server", NoKey)}
    /\ env \in {Env(sync, 0, 2, 0, FALSE, FALSE, TRUE) : sync \in BOOLEAN}
    /\ frames = <<>>
    /\ rx = <<>>
    /\ rx_pos = 0
    /\ tx = <<>>
    /\ buf = Zeros(BufLen)
    /\ out = <<>>
    /\ last = Last("none", "none", 0, "Ok", 0, 0)
    /\ pc = "write"
    /\ \E len \in 1..MaxWrite :
         /\ wbuf = SubSeq(WData, 1, len)
         /\ orig = SubSeq(WData, 1, len)
         /\ call = Call("loop", "running", 0, len, 0, 0, TRUE, 0,
                         SubSeq(WData, 1, len))

\* stream.write(&data[wbeg..]), until it returns x # 0; the transport takes at
\* least one byte of what is submitted
LoopWrite ==
    /\ pc = "write"
    /\ LET data == Slice(wbuf, call.off, call.end)
       IN \E a \in {x \in WriteAnswers(data, call.off, Key1) : x[1] > 0} :
          \E r \in {DoWrite(data, call.off, a[1], a[2], Key1)} :
            /\ ApplyWrite(r, wbuf, call.off, "write")
            /\ rx' = rx \o r.sent
            /\ call' = [call EXCEPT !.ret = r.ret]
            /\ pc' = IF r.ret # 0 THEN "read" ELSE "write"
    /\ UNCHANGED <<env, read_state, heartbeat, rx_pos, buf, out, frames, orig>>

\* stream.read(&mut buf), while the buffer has bytes not yet delivered
LoopRead ==
    /\ pc = "read" /\ rx_pos # Len(rx)
    /\ \E n \in TransportRead(ReadRoom(read_state, heartbeat, Len(buf), env.sync), FALSE) :
       \E r \in {DoRead(n, FALSE, order) : order \in MemcpyOrders(env.sync)} :
         /\ ApplyRead(r, n, "read")
         /\ pc' = IF r.err = "Ok" THEN "read" ELSE "failed"
    /\ UNCHANGED <<env, role, write_state, rx, tx, frames, wbuf, orig, call>>

\* the assertions once the buffer is drained: what was read since the write
\* is the n bytes written
LoopCheck ==
    /\ pc = "read" /\ rx_pos = Len(rx)
    /\ LET tmp == SubSeq(out, call.off + 1, Len(out))
           ok == /\ Len(tmp) = call.ret
                 /\ tmp = Slice(orig, call.off, call.off + call.ret)
       IN /\ pc' = IF ~ok THEN "failed"
                   ELSE IF call.off + call.ret < call.end THEN "write" ELSE "done"
          /\ call' = IF ok THEN [call EXCEPT !.off = @ + call.ret] ELSE call
    /\ UNCHANGED <<env, role, read_state, write_state, heartbeat, rx, rx_pos, tx, buf,
                   out, last, frames, wbuf, orig>>

NextLoop == LoopWrite \/ LoopRead \/ LoopCheck

SpecLoop == InitLoop /\ [][NextLoop]_vars

(***************************************************************************)
(* Properties of the read path.                                            *)
(***************************************************************************)
IsPrefix(a, b) == Len(a) <= Len(b) /\ a = SubSeq(b, 1, Len(a))

\* the payload bytes of the i-th frame as they are on the wire
WirePayload(i) == Slice(rx, PayloadStart(frames, i), FrameEnd(frames, i))

\* the data the wire carries up to the first Close, each byte being the wire
\* byte XOR key[offset in its frame's payload mod 4] where the frame has a key
RECURSIVE WireData(_)
WireData(i) ==
    IF i > Len(frames) \/ frames[i].opcode = "Close" THEN <<>>
    ELSE (IF frames[i].opcode \notin {"Binary", "Continue"} THEN <<>>
          ELSE IF frames[i].mask.kind = "Key"
          THEN apply_mask(frames[i].mask.key, WirePayload(i))
          ELSE WirePayload(i))
         \o WireData(i + 1)

\* the transport has delivered part of a frame and not all of it
MidFrame == \A i \in 0..Len(frames) : rx_pos # FrameEnd(frames, i)

\* the last call was a read that returned Ok(0)
ReturnedZero == last.op = "read" /\ last.err = "Ok" /\ last.ret = 0

\* C4: data read from the stream is unmasked: when the frames carry a
\* non-zero key, every byte surfaced is the wire byte XOR key[i mod 4], i being
\* the byte's offset in its frame's payload, however the payload was split
\* over transport reads.
C4_UnmaskedByPayloadOffset ==
    (frames # <<>> /\ frames[1].mask.kind = "Key") => IsPrefix(out, WireData(1))

\* C5: for a wire of a Binary frame, a Ping and a Binary frame, under any
\* chunking, the bytes surfaced are the data bytes in wire order, and once the
\* wire is read ping_data() is the ping's payload and is_ping_completed() holds.
C5_PingKeptApart ==
    (/\ Len(frames) = 3
     /\ frames[1].opcode = "Binary" /\ frames[2].opcode = "Ping"
     /\ frames[3].opcode = "Binary")
    => /\ IsPrefix(out, DataOf(frames, 1))
       /\ rx_pos = Len(rx) =>
            /\ out = DataOf(frames, 1)
            /\ ping_data(heartbeat) = frames[2].payload
            /\ is_ping_completed(heartbeat)

\* C6: after a sequence of complete Ping frames has been read, under any
\* chunking, ping_data() is the payload of the last of them.
C6_LatestPingOnly ==
    \A k \in 1..Len(frames) :
        (/\ \A j \in 1..k : frames[j].opcode = "Ping"
         /\ rx_pos = FrameEnd(frames, k))
        => ping_data(heartbeat) = frames[k].payload

\* C7: Eof and Close are absorbing: from either the read state never changes,
\* and a read returns 0, issues no transport read and surfaces nothing of
\* what follows on the wire.
C7_EndIsAbsorbing ==
    [][is_read_end(read_state) =>
         /\ read_state' = read_state
         /\ last'.ret = 0 /\ last'.err = "Ok" /\ last'.io = 0
         /\ rx_pos' = rx_pos /\ out' = out]_vars

C7_Witness ==
    /\ is_read_close(read_state) /\ last.op = "read" /\ last.from = "Close"
    /\ rx_pos < Len(rx)

\* C9: when the transport reports the end of the stream in the middle of a
\* frame, with a partial head stored, in ReadData or in ReadPing, the read
\* returns Ok(0) and the read state is Eof.
C9_EofMidFrame ==
    (/\ last.op = "read" /\ last.from \in {"ReadHead", "ReadData", "ReadPing"}
     /\ last.io = 1 /\ last.n = 0 /\ last.err # "Pending"
     /\ MidFrame)
    => (last.err = "Ok" /\ last.ret = 0 /\ is_read_eof(read_state))

C9_Witness ==
    /\ last.op = "read" /\ last.from = "ReadPing" /\ last.io = 1 /\ last.n = 0
    /\ last.err = "Ok" /\ MidFrame /\ is_read_eof(read_state)

\* a Ping frame came to its end within the last call
PingConsumed ==
    \E i \in 1..Len(frames) :
        /\ frames[i].opcode = "Ping"
        /\ rx_pos - last.n < FrameEnd(frames, i)
        /\ FrameEnd(frames, i) <= rx_pos

\* C10 as stated: a Direct read returns 0 only when the resulting state is
\* ReadHead with less than a head delivered, or a ping payload was fully
\* consumed, or the state is terminal.
C10_ZeroOnlyHeadPingEnd ==
    ReturnedZero =>
        \/ read_state.tag = "ReadHead" /\ ~is_empty(read_state.store)
        \/ PingConsumed
        \/ is_read_end(read_state)

\* C10, amended: a Direct read returns 0 only when the resulting state is
\* terminal, or ReadHead with a partial head stored, or ReadHead(empty) at the
\* end of a Ping or of a data frame without payload, or ReadData with all of
\* the frame's payload still to come, or ReadPing.
C10_ZeroOnlyWithoutData ==
    ReturnedZero =>
        \/ is_read_end(read_state)
        \/ read_state.tag = "ReadHead" /\ ~is_empty(read_state.store)
        \/ /\ read_state.tag = "ReadHead" /\ is_empty(read_state.store)
           /\ \E i \in 1..Len(frames) :
                 /\ rx_pos = FrameEnd(frames, i)
                 /\ frames[i].opcode = "Ping" \/ frames[i].payload = <<>>
        \/ /\ read_state.tag = "ReadData"
           /\ \E i \in 1..Len(frames) :
                 /\ frames[i].opcode \in {"Binary", "Continue"}
                 /\ rx_pos = PayloadStart(frames, i)
                 /\ read_state.next = Len(frames[i].payload)
        \/ /\ read_state.tag = "ReadPing"
           /\ \E i \in 1..Len(frames) :
                 /\ frames[i].opcode = "Ping"
                 /\ PayloadStart(frames, i) <= rx_pos /\ rx_pos < FrameEnd(frames, i)

C10_Witness == ReturnedZero /\ read_state.tag = "ReadData" /\ last.io = 1

\* C1: for a wire of Binary and Continuation frames with mask None or Skip,
\* with or without a Close at its end, delivered whole in reads of any sizes,
\* read_to_end returns the concatenation of the payloads and leaves the stream
\* in Close if there was a Close frame, in Eof if not.
C1_ReadToEndYieldsPayloads ==
    (/\ pc = "returned" /\ rx_pos = Len(rx)
     /\ \A i \in 1..Len(frames) :
           /\ frames[i].mask.kind \in {"None", "Skip"}
           /\ \/ frames[i].opcode \in {"Binary", "Continue"}
              \/ frames[i].opcode = "Close" /\ i = Len(frames))
    => /\ out = DataOf(frames, 1)
       /\ IF \E i \in 1..Len(frames) : frames[i].opcode = "Close"
          THEN is_read_close(read_state) ELSE is_read_eof(read_state)

(***************************************************************************)
(* Properties of the write path.                                           *)
(***************************************************************************)
\* the bytes the transport took since the caller's call began
CallWire == SubSeq(tx, call.tx0 + 1, Len(tx))

\* the head of a final Binary frame of len bytes
DataHead(mask, len) == encode_unchecked(FrameHead("Y", "Binary", mask, from_num(len)))

\* a write_all of one byte or more, begun in WriteHead(empty), has returned Ok
WriteAllDone ==
    /\ pc = "idle" /\ call.op = "write_all" /\ call.status = "Ok"
    /\ call.end - call.beg >= 1 /\ call.fresh

\* a write_all fails only after the transport accepted no byte
WriteAllFailsOnZero ==
    (pc = "idle" /\ call.op = "write_all" /\ call.status # "Ok")
    => (call.status = "WriteZero" /\ is_write_zero(write_state))

C8_WriteZeroIsTerminal ==
    [][/\ (last'.op \in {"write", "write_all"} /\ last'.io = 1 /\ last'.n = 0
           /\ last'.err = "Ok")
          => (is_write_zero(write_state') /\ last'.ret = 0)
       /\ is_write_zero(write_state)
          => /\ write_state' = write_state
             /\ tx' = tx
             /\ last'.ret = 0 /\ last'.err = "Ok" /\ last'.io = 0]_vars

\* a write was called in WriteZero, after part of a frame went out
C8_Witness ==
    /\ is_write_zero(write_state) /\ last.from = "WriteZero"
    /\ last.op = "write" /\ Len(tx) > 0

(***************************************************************************)
(* Properties of the loopback test.                                        *)
(***************************************************************************)
\* C3: on the loopback stream every write that returned n > 0 is followed by
\* reads that surface those n bytes and no others, and in the end all that
\* was read is the data written.
C3_RoundTrip ==
    /\ pc # "failed"
    /\ pc = "done" => out = orig

(***************************************************************************)
(* Properties of the Guarded stream.                                       *)
(***************************************************************************)
\* poll_read of the Guarded stream has returned Ready(Ok) with no byte filled
GuardedReturnedZero ==
    pc = "idle" /\ last.op = "read" /\ last.err = "Ok" /\ last.ret = 0

\* C11: a Guarded read returns 0 bytes only when the read state is Eof or
\* Close.
C11_GuardedReadZeroOnlyAtEnd == GuardedReturnedZero => is_read_end(read_state)

\* C12: a Guarded write returns 0 only when the write state is WriteZero; a 0
\* of the inner step with the head not flushed, or just flushed, is retried
\* within the call.
C12_GuardedWriteZeroOnlyAtWriteZero ==
    (env.guard /\ pc = "idle" /\ call.op = "write" /\ call.status = "Ok"
     /\ call.ret = 0)
    => is_write_zero(write_state)

\* a Guarded write returned 0 after part of a head went out within the call
C12_Witness ==
    /\ env.guard /\ pc = "idle" /\ call.op = "write" /\ call.status = "Ok"
    /\ call.ret = 0 /\ is_write_zero(write_state)
    /\ Len(tx) > call.tx0 /\ call.end > call.beg

RECURSIVE WholeFrames(_)
WholeFrames(w) ==
    \/ w = <<>>
    \/ LET d == decode(w)
       IN /\ d.err = "Ok"
          /\ Len(w) >= d.n + to_num(d.head.length)
          /\ WholeFrames(SubSeq(w, d.n + to_num(d.head.length) + 1, Len(w)))

\* C14: set_mask_key succeeds exactly when the write state is WriteHead with
\* an empty head store (nothing written into it); then the role holds the new
\* key.  In WriteHead(partial), WriteData and WriteZero it returns
\* SetMaskInWrite and leaves the role as it was.  The write state is not
\* touched, so the call succeeds again once the frame is written out.
C14_SetMaskOnlyBetweenFrames ==
    [][last'.op = "set_mask_key" =>
         /\ write_state' = write_state /\ tx' = tx
         /\ last'.err = "Ok" <=> (write_state.tag = "WriteHead" /\ write_state.store.wr = 0)
         /\ last'.err = "Ok" =>
              (role.kind = "StandardClient" => role'.key \in CtrlKeys)
         /\ last'.err # "Ok" => (last'.err = "SetMaskInWrite" /\ role' = role)]_vars

\* the call succeeded after a whole frame went out, the head in two writes
C14_Witness ==
    /\ last.op = "set_mask_key" /\ last.err = "Ok" /\ role.key \in CtrlKeys
    /\ Len(tx) > 0 /\ WholeFrames(tx) /\ call.tx0 > 0


(***************************************************************************)
(* Properties of a stream whose read has failed.                           *)
(***************************************************************************)
\* C15: once a read has returned a frame error (IllegalFin, IllegalOpCode,
\* IllegalData or UnsupportedOpcode), no later read surfaces bytes to the
\* caller, whatever buffer the caller passes.
C15_FrameErrorIsFatal == [][pc = "failed" => out' = out]_vars

(***************************************************************************)
(* Properties of the Ping frames.                                          *)
(***************************************************************************)
\* the frames whose head announces more than a Ping may carry
LongPings == {i \in 1..Len(frames) : Len(frames[i].payload) > MaxPingLen}

\* every read succeeds and, once the transport has delivered all the frames,
\* the ping is complete and as long as the last frame's payload
PingsAccepted ==
    LongPings = {} =>
        /\ last.err \in {"Ok", "Pending"}
        /\ rx_pos = Len(rx) =>
              /\ is_ping_completed(heartbeat)
              /\ Len(ping_data(heartbeat)) = Len(frames[Len(frames)].payload)

\* once the head of a long Ping has been delivered, read has failed with
\* IllegalData and the heartbeat is as the frames before it left it
LongPingRejected ==
    \A i \in LongPings :
        /\ rx_pos >= PayloadStart(frames, i) => last.err = "IllegalData"
        /\ last.err = "IllegalData" =>
              IF i = 1 THEN heartbeat = HeartBeat_new
              ELSE /\ is_ping_completed(heartbeat)
                   /\ Len(ping_data(heartbeat)) = Len(frames[i - 1].payload)

\* a read that starts at the long Ping and fails leaves the heartbeat alone
LongPingKeepsHeartBeat ==
    \A i \in LongPings :
        (rx_pos >= FrameEnd(frames, i - 1) /\ last'.err = "IllegalData")
            => heartbeat' = heartbeat

\* C16: a Ping frame with a payload of 0..125 bytes is accepted however the
\* transport chunks it; a Ping frame whose head announces 126 bytes or more
\* makes read fail with IllegalData, and neither the ping buffer nor the
\* completion flag changes.
C16_PingLengthLimit ==
    /\ [](PingsAccepted /\ LongPingRejected)
    /\ [][LongPingKeepsHeartBeat]_vars

\* a Ping of 125 bytes that came in over several reads is complete
C16_Witness ==
    /\ last.from = "ReadPing" /\ last.n < MaxPingLen - BufLen
    /\ is_ping_completed(heartbeat)
    /\ Len(ping_data(heartbeat)) = MaxPingLen
    /\ Len(frames) = 2

\* a read has failed at the head of a long Ping that follows a short one
C16_Rejected ==
    /\ last.err = "IllegalData" /\ Len(frames) = 2
    /\ Len(ping_data(heartbeat)) = MaxPayload - 1

(***************************************************************************)
(* Properties of the opcodes and the fin bit on the read path.             *)
(***************************************************************************)
\* the frames the read path does not take
Unsupported == {i \in 1..Len(frames) : frames[i].opcode \in {"Text", "Pong"}}

\* the frames a reader gets to: those up to the first Close
BeforeClose(i) == \A j \in 1..(i - 1) : frames[j].opcode # "Close"

\* once the head of a Text or a Pong frame has been delivered to a reader that
\* has met no Close, read has failed with UnsupportedOpcode
UnsupportedRejected ==
    \A i \in Unsupported :
        (BeforeClose(i) /\ rx_pos >= PayloadStart(frames, i))
            => last.err = "UnsupportedOpcode"

\* with the other four opcodes every read succeeds, whatever the fin bits,
\* and the reader surfaces the data of the frames: all of it once the
\* transport has delivered all the frames, and byte for byte where no key
\* is to be taken off and no payload is moved by an undefined copy
FinIgnored ==
    Unsupported = {} =>
        /\ last.err \in {"Ok", "Pending"}
        /\ Len(out) <= Len(DataOf(frames, 1))
        /\ rx_pos = Len(rx) => Len(out) = Len(DataOf(frames, 1))
        /\ (~env.sync /\ \A i \in 1..Len(frames) : frames[i].mask.kind # "Key")
              => IsPrefix(out, DataOf(frames, 1))

\* C17: the read path takes Binary, Continuation, Ping and Close frames only:
\* a well-formed head with opcode Text or Pong makes read fail with
\* UnsupportedOpcode, and the fin bit of a frame it takes has no effect on
\* what is surfaced.
C17_OpcodesAndFin == UnsupportedRejected /\ FinIgnored

\* a Binary frame with a clear fin bit and no Continuation after it has been
\* surfaced whole
C17_Witness ==
    /\ \E i \in 1..Len(frames) :
          /\ frames[i].opcode = "Binary" /\ frames[i].fin = "N"
          /\ Len(frames[i].payload) > 0
          /\ i = Len(frames) \/ frames[i + 1].opcode # "Continue"
    /\ Unsupported = {}
    /\ rx_pos = Len(rx)
    /\ out = DataOf(frames, 1)

\* a read has failed at a Text or a Pong frame that follows a data frame
C17_Rejected ==
    /\ last.err = "UnsupportedOpcode" /\ Len(frames) = 2
    /\ frames[1].opcode = "Binary"

(***************************************************************************)
(* Properties of the frame head codec.                                     *)
(***************************************************************************)
\* C18: for every legal FrameHead (either fin, one of the six opcodes, mask
\* None, Skip or Key with a non-zero key, the length in its minimum
\* encoding), decoding what encode wrote returns the head and the number of
\* bytes encode wrote, also when the buffer holds more bytes after the head;
\* encode_unchecked writes the same bytes as encode.
C18_DecodeInvertsEncode ==
    /\ (pc = "decoded" /\ last.from = "both") =>
          /\ last.err = "Ok"
          /\ frames[2] = frames[1]
          /\ last.ret = Len(tx)
    /\ (pc = "both" /\ last.err = "Ok") =>
          /\ call.ret = last.ret
          /\ SubSeq(wbuf, 1, call.ret) = tx

\* a head with a 64-bit length and a key has come back from a buffer that
\* holds other bytes after it
C18_Witness ==
    /\ pc = "decoded" /\ last.from = "both" /\ last.err = "Ok"
    /\ frames[1].length.kind = "Extended2" /\ frames[1].mask = MaskKey(CodecKey)
    /\ frames[1].fin = "N"
    /\ Len(buf) > last.ret /\ buf[Len(buf)] = 255

\* the bytes of the extended length and of the key in the head of h
ExtBytes(h) ==
    CASE h.length.kind = "Standard" -> 0
      [] h.length.kind = "Extended1" -> 2
      [] h.length.kind = "Extended2" -> 8

KeyBytes(h) == IF h.mask.kind = "None" THEN 0 ELSE 4

\* C19: PayloadLen::from_num chooses the minimum encoding: Standard up to
\* 125, 16-bit from 126 to 65535, 64-bit from 65536; the encoded head takes
\* 2 + {0, 2, 8} + {0, 4} bytes, at most 14, so encode_unchecked never writes
\* past the 14-byte head buffer.
C19_MinimumEncodingFits ==
    /\ pc # "overrun"
    /\ pc \in {"encoded", "both"} =>
          /\ to_num(frames[1].length) = rx_pos
          /\ frames[1].length.kind =
                IF rx_pos <= 125 THEN "Standard"
                ELSE IF rx_pos <= 65535 THEN "Extended1" ELSE "Extended2"
    /\ pc = "both" =>
          /\ call.ret = 2 + ExtBytes(frames[1]) + KeyBytes(frames[1])
          /\ call.ret <= HeadCap
          /\ last.err = "Ok" => last.ret = call.ret

\* the head of the first 64-bit length, with a key, fills the head buffer
C19_Witness ==
    /\ pc = "both" /\ rx_pos = 65536 /\ frames[1].mask.kind = "Key"
    /\ call.ret = HeadCap /\ wbuf[HeadCap] # 0

\* byte 0 of a head: the high nibble is 0x8 or 0x0
LegalFin(b) == b \div 16 \in {0, 8}

\* byte 0 of a head: the low nibble is none of 0x3..0x7 and 0xB..0xF
LegalOpCode(b) == b % 16 \notin (3..7) \cup (11..15)

\* the length of the head whose byte 1 is b: the two flag bytes, the extended
\* length that the low seven bits call for and the key that the high bit
\* calls for
HeadLenOf(b) ==
    2 + (CASE b % 128 = 126 -> 2 [] b % 128 = 127 -> 8 [] OTHER -> 0)
      + (IF b >= 128 THEN 4 ELSE 0)

\* decode's answer for a buffer of two bytes or more: the fin check comes
\* first, the opcode check second, and with legal flags the buffer is short
\* of its head or not
DecodeOrder ==
    (pc = "decoded" /\ Len(buf) >= 2) =>
        /\ ~LegalFin(buf[1]) => last.err = "IllegalFin"
        /\ (LegalFin(buf[1]) /\ ~LegalOpCode(buf[1])) => last.err = "IllegalOpCode"
        /\ (LegalFin(buf[1]) /\ LegalOpCode(buf[1])) =>
              last.err = IF Len(buf) < HeadLenOf(buf[2]) THEN "NotEnoughData" ELSE "Ok"

\* buf is a strict prefix of a head with legal flags
StrictPrefixOfHead ==
    \/ Len(buf) = 0
    \/ Len(buf) = 1 /\ LegalFin(buf[1]) /\ LegalOpCode(buf[1])
    \/ /\ Len(buf) >= 2 /\ LegalFin(buf[1]) /\ LegalOpCode(buf[1])
       /\ Len(buf) < HeadLenOf(buf[2])

\* C20 as stated: decode of a buffer of at least 2 bytes fails with IllegalFin
\* when the high nibble of byte 0 is neither 0x8 nor 0x0, otherwise with
\* IllegalOpCode when the low nibble is in 0x3..0x7 or 0xB..0xF, both before
\* NotEnoughData for a missing extended length or key; NotEnoughData is
\* returned exactly when the buffer is a strict prefix of a head with legal
\* flags.
C20_DecodeErrors ==
    /\ DecodeOrder
    /\ pc = "decoded" => (last.err = "NotEnoughData" <=> StrictPrefixOfHead)

\* C20, amended: the same order of the checks for a buffer of at least 2
\* bytes; NotEnoughData is returned exactly when the buffer has fewer than 2
\* bytes, whatever its byte, or has legal flags and is a strict prefix of its
\* head.
C20_DecodeErrorsFromTwoBytes ==
    /\ DecodeOrder
    /\ pc = "decoded" =>
          (last.err = "NotEnoughData" <=> (Len(buf) < 2 \/ StrictPrefixOfHead))

\* a buffer with an illegal high nibble, an illegal low nibble and neither
\* the extended length nor the key its byte 1 calls for has been decoded
C20_Witness ==
    /\ pc = "decoded" /\ Len(buf) = 2
    /\ ~LegalFin(buf[1]) /\ ~LegalOpCode(buf[1]) /\ buf[2] = 255
    /\ last.err = "IllegalFin"

(***************************************************************************)
(* Properties of the masks.                                                *)
(***************************************************************************)
\* C21: the word-wise apply_mask4 produces the bytes of the byte-wise
\* apply_mask (buf[i] ^= key[i mod 4]) for every key, every buffer length and
\* every alignment of the buffer's start; applied twice it restores the
\* buffer.
C21_WordwiseIsBytewise ==
    /\ pc = "once" =>
          /\ buf = wbuf
          /\ \A i \in 1..Len(buf) : buf[i] = Xor(orig[i], role.key[((i - 1) % 4) + 1])
    /\ pc = "twice" => buf = orig

\* a buffer with an unaligned prefix of three bytes, whole words and a suffix
\* has been masked word by word
C21_Witness ==
    /\ pc = "once" /\ env.addr = 1 /\ Len(buf) = MaskLen
    /\ \A i \in 1..Len(buf) : buf[i] # orig[i]

(***************************************************************************)
(* Properties of a stream that is read and written.                        *)
(***************************************************************************)
\* C22: read state and write state are independent: a read never changes the
\* write state or the role's mask key, a write never changes the read state
\* or the heartbeat, and every call of an interleaving is the call that the
\* direction alone makes on the state it finds: a read of the stream that
\* only reads, or a write of the stream that only writes.
C22_DirectionsIndependent ==
    [][/\ ReadCall \/ DirectWrite
       /\ last'.op = "read" =>
             UNCHANGED <<write_state, role, tx, wbuf>>
       /\ last'.op = "write" =>
             UNCHANGED <<read_state, heartbeat, rx_pos, buf, out>>]_vars

\* a read has surfaced payload while a frame was half written, and left the
\* reader in the middle of a frame
C22_Witness ==
    /\ last.op = "read" /\ last.ret > 0 /\ read_state.tag = "ReadData"
    /\ write_state.tag = "WriteData" /\ Len(tx) > 0
    /\ role.kind = "StandardClient"

(***************************************************************************)
(* Properties of the relay.                                                *)
(***************************************************************************)
\* C23: in the echo topology the relay copies every message the client
\* writes, whole and in order, and does not stop copying before the client
\* has closed: when the copy has ended, the reading stream is at its end and
\* the payload of every frame has been read and sent on.
C23_RelayCopiesUntilClose ==
    pc = "stopped" =>
        /\ is_read_end(read_state)
        /\ out = DataOf(frames, 1)
        /\ call.status \in {"none", "Ok"}

(***************************************************************************)
(* The cursors of the three stores: a stream that reads the longest head   *)
(* and the longest pings in pieces, or writes frames in pieces.            *)
(***************************************************************************)
LongLen == 65536

\* a frame with a head of 14 bytes and the first bytes of its payload
LongHeadWire ==
    encode_unchecked(FrameHead("Y", "Binary", MaskKey(Key9), from_num(LongLen)))
    \o <<42, 43, 44>>

InitCursors ==
    /\ StreamInit
    /\ role = Role("StandardClient", Key9)
    /\ env \in ReadEnvs
    /\ \/ /\ \/ rx = LongHeadWire /\ frames = <<>>
             \/ \E fs \in PingSeqs(MaskKey(Key9)) : frames = fs /\ rx = WireOf(fs, 1)
          /\ wbuf = <<>>
          /\ orig = <<>>
       \/ /\ rx = <<>>
          /\ frames = <<>>
          /\ wbuf = WData
          /\ orig = WData
    /\ rx_pos = 0
    /\ tx = <<>>
    /\ buf = Zeros(BufLen)
    /\ out = <<>>
    /\ last = Last("none", "none", 0, "Ok", 0, 0)
    /\ pc = "idle"
    /\ call = NoCall

\* the stream with something to read is read, the other one is written
CursorRead == rx # <<>> /\ PingRead

CursorWrite == rx = <<>> /\ DirectWrite

NextCursors == CursorRead \/ CursorWrite

SpecCursors == InitCursors /\ [][NextCursors]_vars

(***************************************************************************)
(* The opening handshake.  The HTTP text is kept at a reduced scale: every *)
(* fixed piece of text (the method with its blank, a header name with its  *)
(* ": ", a fixed header value, the version with the CRLF) is one byte, and *)
(* the free values (path, host, key, accept) are short byte strings.       *)
(***************************************************************************)
HTTP_LINE_BREAK == 10
HTTP_METHOD == 71
HTTP_STATUS_LINE == 72
HEADER_HOST_NAME == 104
HEADER_UPGRADE_NAME == 117
HEADER_UPGRADE_VALUE == 119
HEADER_CONNECTION_NAME == 99
HEADER_CONNECTION_VALUE == 85
HEADER_SEC_WEBSOCKET_KEY_NAME == 107
HEADER_SEC_WEBSOCKET_VERSION_NAME == 118
HEADER_SEC_WEBSOCKET_VERSION_VALUE == 13
HEADER_SEC_WEBSOCKET_ACCEPT_NAME == 97
GUID == 5
AcceptMod == 11
AcceptBase == 20

HttpHeader(name, value) == [name |-> name, value |-> value]

\* HttpHeader::len: name, separator, value and line break
HeaderLen(hdr) == Len(hdr.value) + 2

HeaderBytes(hdr) == <<hdr.name>> \o hdr.value \o <<HTTP_LINE_BREAK>>

\* derive_accept_key: a digest of the key and the GUID, in as many bytes as
\* the key has and in text bytes that are no line break; different keys of
\* the model have different digests
derive_accept_key(sec_key) ==
    [i \in 1..Len(sec_key) |->
        AcceptBase + ((sec_key[i] * (GUID + i) + Len(sec_key)) % AcceptMod)]

Request(path, host, sec_key) ==
    [path |-> path, host |-> host, sec_key |-> sec_key]

Response(sec_accept) == [sec_accept |-> sec_accept]

\* write_header!: the headers one after the other from position pos, each
\* only if it fits; the result is the buffer, the position and the error
RECURSIVE write_headers(_, _, _)
write_headers(b, pos, hdrs) ==
    IF hdrs = <<>> THEN [err |-> "Ok", n |-> pos, buf |-> b]
    ELSE IF Len(b) - pos < HeaderLen(Head(hdrs))
         THEN [err |-> "NotEnoughCapacity", n |-> pos, buf |-> b]
         ELSE write_headers(Patch(b, pos, HeaderBytes(Head(hdrs))),
                            pos + HeaderLen(Head(hdrs)), Tail(hdrs))

\* the closing line break, written only if there is room
write_end(w) ==
    IF w.err # "Ok" THEN w
    ELSE IF Len(w.buf) - w.n < 1
         THEN [w EXCEPT !.err = "NotEnoughCapacity"]
         ELSE [err |-> "Ok", n |-> w.n + 1,
               buf |-> Patch(w.buf, w.n, <<HTTP_LINE_BREAK>>)]

\* Request::encode: the request line is written unchecked, then the headers
Request_encode(req, b) ==
    LET line == <<HTTP_METHOD>> \o req.path \o <<HTTP_LINE_BREAK>>
    IN  write_end(write_headers(Patch(b, 0, line), Len(line),
            << HttpHeader(HEADER_HOST_NAME, req.host),
               HttpHeader(HEADER_UPGRADE_NAME, <<HEADER_UPGRADE_VALUE>>),
               HttpHeader(HEADER_CONNECTION_NAME, <<HEADER_CONNECTION_VALUE>>),
               HttpHeader(HEADER_SEC_WEBSOCKET_KEY_NAME, req.sec_key),
               HttpHeader(HEADER_SEC_WEBSOCKET_VERSION_NAME,
                          <<HEADER_SEC_WEBSOCKET_VERSION_VALUE>>) >>))

\* Response::encode: the status line is written unchecked, then the headers
Response_encode(resp, b) ==
    LET line == <<HTTP_STATUS_LINE, HTTP_LINE_BREAK>>
    IN  write_end(write_headers(Patch(b, 0, line), Len(line),
            << HttpHeader(HEADER_UPGRADE_NAME, <<HEADER_UPGRADE_VALUE>>),
               HttpHeader(HEADER_CONNECTION_NAME, <<HEADER_CONNECTION_VALUE>>),
               HttpHeader(HEADER_SEC_WEBSOCKET_ACCEPT_NAME, resp.sec_accept) >>))

\* the parser: where the head of the message ends, that is behind the first
\* empty line, or 0 while the head is not complete (Status::Partial)
HeadEnd(b) ==
    LET ends == {i \in 2..Len(b) : b[i] = HTTP_LINE_BREAK /\ b[i - 1] = HTTP_LINE_BREAK}
    IN  IF ends = {} THEN 0 ELSE CHOOSE i \in ends : \A j \in ends : i <= j

\* the lines of a complete head, without their line breaks
RECURSIVE SplitLines(_, _)
SplitLines(b, cur) ==
    IF b = <<>> THEN <<>>
    ELSE IF Head(b) = HTTP_LINE_BREAK
         THEN <<cur>> \o SplitLines(Tail(b), <<>>)
         ELSE SplitLines(Tail(b), Append(cur, Head(b)))

\* filter_header: the value of the first header with this name, empty if
\* there is none
filter_header(lines, name) ==
    LET at == {i \in 2..Len(lines) : lines[i] # <<>> /\ lines[i][1] = name}
    IN  IF at = {} THEN <<>>
        ELSE Tail(lines[CHOOSE i \in at : \A j \in at : i <= j])

\* handshake_check!: the header is there and has the value
handshake_check(value, expected) == value # <<>> /\ value = <<expected>>

HsDecoded(err, n, fields) == [err |-> err, n |-> n, fields |-> fields]

\* Request::decode
Request_decode(b) ==
    LET n == HeadEnd(b)
        lines == SplitLines(Slice(b, 0, n - 1), <<>>)
        host == filter_header(lines, HEADER_HOST_NAME)
        upgrade == filter_header(lines, HEADER_UPGRADE_NAME)
        connection == filter_header(lines, HEADER_CONNECTION_NAME)
        sec_key == filter_header(lines, HEADER_SEC_WEBSOCKET_KEY_NAME)
        version == filter_header(lines, HEADER_SEC_WEBSOCKET_VERSION_NAME)
        none == Request(<<>>, <<>>, <<>>)
    IN  IF n = 0 THEN HsDecoded("NotEnoughData", 0, none)
        ELSE IF lines[1] = <<>> \/ lines[1][1] # HTTP_METHOD
             THEN HsDecoded("HttpMethod", 0, none)
        \* a missing header, in the order of the headers
        ELSE IF host = <<>> THEN HsDecoded("HttpHost", 0, none)
        ELSE IF upgrade = <<>> THEN HsDecoded("Upgrade", 0, none)
        ELSE IF connection = <<>> THEN HsDecoded("Connection", 0, none)
        ELSE IF sec_key = <<>> THEN HsDecoded("SecWebSocketKey", 0, none)
        ELSE IF version = <<>> THEN HsDecoded("SecWebSocketVersion", 0, none)
        \* the values of the fixed headers
        ELSE IF ~handshake_check(upgrade, HEADER_UPGRADE_VALUE)
             THEN HsDecoded("Upgrade", 0, none)
        ELSE IF ~handshake_check(connection, HEADER_CONNECTION_VALUE)
             THEN HsDecoded("Connection", 0, none)
        ELSE IF ~handshake_check(version, HEADER_SEC_WEBSOCKET_VERSION_VALUE)
             THEN HsDecoded("SecWebSocketVersion", 0, none)
        ELSE HsDecoded("Ok", n, Request(Tail(lines[1]), host, sec_key))

\* Response::decode
Response_decode(b) ==
    LET n == HeadEnd(b)
        lines == SplitLines(Slice(b, 0, n - 1), <<>>)
        upgrade == filter_header(lines, HEADER_UPGRADE_NAME)
        connection == filter_header(lines, HEADER_CONNECTION_NAME)
        sec_accept == filter_header(lines, HEADER_SEC_WEBSOCKET_ACCEPT_NAME)
        none == Response(<<>>)
    IN  IF n = 0 THEN HsDecoded("NotEnoughData", 0, none)
        ELSE IF lines[1] # <<HTTP_STATUS_LINE>>
             THEN HsDecoded("HttpSatusCode", 0, none)
        ELSE IF upgrade = <<>> THEN HsDecoded("Upgrade", 0, none)
        ELSE IF connection = <<>> THEN HsDecoded("Connection", 0, none)
        ELSE IF sec_accept = <<>> THEN HsDecoded("SecWebSocketAccept", 0, none)
        ELSE IF ~handshake_check(upgrade, HEADER_UPGRADE_VALUE)
             THEN HsDecoded("Upgrade", 0, none)
        ELSE IF ~handshake_check(connection, HEADER_CONNECTION_VALUE)
             THEN HsDecoded("Connection", 0, none)
        ELSE HsDecoded("Ok", n, Response(sec_accept))

(***************************************************************************)
(* The endpoints: accept on the server, connect on the client.  Every      *)
(* action is one call of the transport with the code around it.  call is   *)
(* the handshake call: which one, how it stands, offset and total of the   *)
(* loop at work, and what the last finished loop returned; orig is what    *)
(* the endpoint was given (host, path) and the key of this handshake; out  *)
(* is the decoded message.                                                 *)
(***************************************************************************)
HsBufMax == 24
HsBufLens == {14, 19, HsBufMax}
HsHost == <<1>>
HsPath == <<2>>
HsKeys == {<<1>>, <<2>>, <<1, 2>>}

HsCall(op, status, offset, total, ret) ==
    [op |-> op, status |-> status, offset |-> offset, total |-> total, ret |-> ret]

\* the messages a peer may send: well-formed ones, and these cut short,
\* followed by more bytes, or with one byte replaced
PeerRequests ==
    {Request_encode(Request(p, h, k), Zeros(HsBufMax)) :
        p \in {HsPath, <<1>>}, h \in {HsHost, <<2>>}, k \in HsKeys}

PeerResponses ==
    {Response_encode(Response(a), Zeros(HsBufMax)) :
        a \in {derive_accept_key(k) : k \in HsKeys} \cup HsKeys}

Damaged(m) ==
    {[m EXCEPT ![i] = b] : i \in {1, 4, 5, 8, Len(m) - 1}, b \in {HTTP_LINE_BREAK, 0}}

PeerSends(encoded) ==
    LET whole == {Slice(e.buf, 0, e.n) : e \in encoded}
    IN  UNION {{Slice(m, 0, k) : k \in 0..Len(m)}
               \cup {m \o <<1>>, m \o <<HTTP_LINE_BREAK, HTTP_LINE_BREAK>>}
               \cup Damaged(m) : m \in whole}

InitHandshake ==
    /\ StreamInit
    /\ env = Env(TRUE, 0, 2, 0, FALSE, FALSE, FALSE)
    /\ \E len \in HsBufLens : buf = Zeros(len)
    /\ \/ /\ role = Role("Server", NoKey)
          /\ rx \in PeerSends(PeerRequests)
          /\ orig = [host |-> HsHost, path |-> HsPath, sec_key |-> <<>>]
          /\ call = HsCall("accept", "recv", 0, Len(buf), 0)
          /\ pc = "recv"
       \/ /\ role = Role("Client", NoKey)
          /\ rx \in PeerSends(PeerResponses)
          /\ \E k \in HsKeys : orig = [host |-> HsHost, path |-> HsPath, sec_key |-> k]
          /\ call = HsCall("connect", "encode", 0, 0, 0)
          /\ pc = "encode"
    /\ rx_pos = 0
    /\ tx = <<>>
    /\ out = <<>>
    /\ last = Last("none", "none", 0, "Ok", 0, 0)
    /\ frames = <<>>
    /\ wbuf = <<>>

\* the sizes one transport call may move: few bytes, or all there is
HsChunks(most) == {n \in 1..most : n <= MaxChunk \/ n = most}

\* a loop that would return one byte early
DrainTurn_early(c, b, n) ==
    LET offset == c.offset + n
    IN  IF offset + 1 < c.total
        THEN [c EXCEPT !.offset = offset]
        ELSE IF c.op = "accept"
             THEN HsCall(c.op, "Ok", offset, c.total, c.total)
             ELSE HsCall(c.op, "recv", 0, Len(b), c.total)

\* send_request, send_response: one turn of the loop that hands
\* buf[offset..total] to the transport, which takes n bytes of it; the loop
\* returns total when the offset has come to it
DrainTurn(c, b, n) ==
    LET offset == c.offset + n
    IN  IF offset < c.total
        THEN [c EXCEPT !.offset = offset]
        ELSE IF c.op = "accept"
             THEN HsCall(c.op, "Ok", offset, c.total, c.total)
             ELSE HsCall(c.op, "recv", 0, Len(b), c.total)

HsPc(c) == IF c.status = "Ok" THEN "done"
           ELSE IF c.status \in {"recv", "send"} THEN c.status
           ELSE "failed"

\* the transport takes n of the bytes handed to it
HsTransportWrite(c, b, n) ==
    /\ tx' = tx \o Slice(b, c.offset, c.offset + n)
    /\ call' = DrainTurn(c, b, n)
    /\ pc' = HsPc(call')
    /\ last' = Last("write", pc, call'.ret, "Ok", n, c.offset)

\* connect: the key of this handshake, the request encoded into buf, and the
\* first write of send_request
Connect ==
    /\ pc = "encode"
    /\ LET enc == Request_encode(Request(orig.path, orig.host, orig.sec_key), buf)
       IN  IF enc.err # "Ok"
           THEN /\ call' = HsCall("connect", enc.err, 0, 0, 0)
                /\ pc' = "failed"
                /\ buf' = enc.buf
                /\ last' = Last("encode", pc, 0, enc.err, 0, 0)
                /\ UNCHANGED tx
           ELSE /\ buf' = enc.buf
                /\ \E n \in HsChunks(enc.n) :
                       HsTransportWrite(HsCall("connect", "send", 0, enc.n, 0), enc.buf, n)
    /\ UNCHANGED <<env, role, read_state, write_state, heartbeat, rx, rx_pos,
                   out, frames, wbuf, orig>>

\* a later turn of the loop of send_request or send_response
HsWrite ==
    /\ pc = "send"
    /\ \E n \in HsChunks(call.total - call.offset) : HsTransportWrite(call, buf, n)
    /\ UNCHANGED <<env, role, read_state, write_state, heartbeat, rx, rx_pos,
                   buf, out, frames, wbuf, orig>>

\* an accept that would answer without comparing host and path
AcceptChecked_unverified(c, b, request) ==
    LET enc == Response_encode(Response(derive_accept_key(request.sec_key)), b)
    IN  [call |-> HsCall(c.op, "send", 0, enc.n, c.offset), buf |-> enc.buf]

\* accept, behind recv_request: host and path are compared, then the accept
\* key is derived and the response encoded into buf for send_response
AcceptChecked(c, b, request) ==
    IF request.host # orig.host
    THEN [call |-> HsCall(c.op, "Manual(host mismatch)", c.offset, c.total, c.offset), buf |-> b]
    ELSE IF request.path # orig.path
    THEN [call |-> HsCall(c.op, "Manual(path mismatch)", c.offset, c.total, c.offset), buf |-> b]
    ELSE LET enc == Response_encode(Response(derive_accept_key(request.sec_key)), b)
         IN  IF enc.err # "Ok"
             THEN [call |-> HsCall(c.op, enc.err, c.offset, c.total, c.offset), buf |-> enc.buf]
             ELSE [call |-> HsCall(c.op, "send", 0, enc.n, c.offset), buf |-> enc.buf]

\* a connect that would take the accept value of any key
ConnectChecked_any_key(c, b, response) ==
    IF response.sec_accept \notin {derive_accept_key(k) : k \in HsKeys}
    THEN [call |-> HsCall(c.op, "SecWebSocketAccept", c.offset, c.total, c.offset), buf |-> b]
    ELSE [call |-> HsCall(c.op, "Ok", c.offset, c.total, c.offset), buf |-> b]

\* connect, behind recv_response: the accept value is compared with the one
\* derived from the key of this handshake
ConnectChecked(c, b, response) ==
    IF response.sec_accept # derive_accept_key(orig.sec_key)
    THEN [call |-> HsCall(c.op, "SecWebSocketAccept", c.offset, c.total, c.offset), buf |-> b]
    ELSE [call |-> HsCall(c.op, "Ok", c.offset, c.total, c.offset), buf |-> b]

\* a loop that would give the NotEnoughData of decode to its caller
Undecoded_surfaced(c, offset) ==
    [c EXCEPT !.offset = offset, !.status = "NotEnoughData"]

\* the message is not complete yet: the loop goes on while buf has room and
\* ends with NotEnoughCapacity when it has none
Undecoded(c, offset) ==
    [c EXCEPT !.offset = offset,
              !.status = IF offset < c.total THEN "recv" ELSE "NotEnoughCapacity"]

\* recv_request, recv_response: one turn of the loop that reads into
\* buf[offset..] and decodes buf[..offset]; n is what the transport gave, b
\* the buffer with it
RecvTurn(c, b, n) ==
    LET offset == c.offset + n
        dec == IF c.op = "accept" THEN Request_decode(Slice(b, 0, offset))
               ELSE Response_decode(Slice(b, 0, offset))
    IN  IF n = 0
        THEN [call |-> [c EXCEPT !.status = "NotEnoughData"], buf |-> b, out |-> <<>>]
        ELSE IF dec.err = "Ok"
        THEN LET next == IF c.op = "accept"
                         THEN AcceptChecked([c EXCEPT !.offset = offset], b, dec.fields)
                         ELSE ConnectChecked([c EXCEPT !.offset = offset], b, dec.fields)
             IN  [call |-> next.call, buf |-> next.buf, out |-> dec.fields]
        ELSE IF dec.err = "NotEnoughData"
        THEN [call |-> Undecoded(c, offset), buf |-> b, out |-> <<>>]
        ELSE [call |-> [c EXCEPT !.offset = offset, !.status = dec.err],
              buf |-> b, out |-> <<>>]

\* one read of the transport in recv_request or recv_response: it gives 0
\* only when the peer has closed
HsRead ==
    /\ pc = "recv"
    /\ LET room == call.total - call.offset
           avail == Len(rx) - rx_pos
       IN  \E n \in (IF avail = 0 THEN {0} ELSE HsChunks(Min(room, avail))) :
           \E r \in {RecvTurn(call, Patch(buf, call.offset, Slice(rx, rx_pos, rx_pos + n)), n)} :
              /\ rx_pos' = rx_pos + n
              /\ buf' = r.buf
              /\ call' = r.call
              /\ out' = r.out
              /\ pc' = HsPc(r.call)
              /\ last' = Last("read", pc, r.call.ret, r.call.status, n, call.offset)
    /\ UNCHANGED <<env, role, read_state, write_state, heartbeat, rx, tx,
                   frames, wbuf, orig>>

NextHandshake == Connect \/ HsWrite \/ HsRead

SpecHandshake == InitHandshake /\ [][NextHandshake]_vars

(***************************************************************************)
(* The suspendable endpoints.  poll_fn polls a closure that calls the      *)
(* function of endpoint/detail anew: when the transport is not ready the   *)
(* function returns, and the next poll enters it at its first line, with   *)
(* offset = 0 (and, for a send, the message encoded into buf once more).   *)
(***************************************************************************)
MaxSuspend == 1

\* what the peer sends to a suspendable endpoint: a message the endpoint is
\* to take, whole or without its last byte
MatchingRequests ==
    {Request_encode(Request(HsPath, HsHost, k), Zeros(HsBufMax)) : k \in HsKeys}

MatchingResponses ==
    {Response_encode(Response(derive_accept_key(k)), Zeros(HsBufMax)) : k \in HsKeys}

PeerSendsWhole(encoded) ==
    UNION {{Slice(e.buf, 0, e.n), Slice(e.buf, 0, e.n - 1)} : e \in encoded}

\* wbuf is the log of the suspensions: the offsets that were given up
InitHandshakeAsync ==
    /\ StreamInit
    /\ env = Env(FALSE, 0, 2, 0, FALSE, FALSE, FALSE)
    /\ \E len \in HsBufLens : buf = Zeros(len)
    /\ \/ /\ role = Role("Server", NoKey)
          /\ rx \in PeerSendsWhole(MatchingRequests)
          /\ orig = [host |-> HsHost, path |-> HsPath, sec_key |-> <<>>]
          /\ call = HsCall("accept", "recv", 0, Len(buf), 0)
          /\ pc = "recv"
       \/ /\ role = Role("Client", NoKey)
          /\ rx \in PeerSendsWhole(MatchingResponses)
          /\ \E k \in HsKeys : orig = [host |-> HsHost, path |-> HsPath, sec_key |-> k]
          /\ call = HsCall("connect", "encode", 0, 0, 0)
          /\ pc = "encode"
    /\ rx_pos = 0
    /\ tx = <<>>
    /\ out = <<>>
    /\ last = Last("none", "none", 0, "Ok", 0, 0)
    /\ frames = <<>>
    /\ wbuf = <<>>

\* the message send_request or send_response encodes into buf when entered
Reencoded(c, b) ==
    IF c.op = "accept"
    THEN Response_encode(Response(derive_accept_key(out.sec_key)), b)
    ELSE Request_encode(Request(orig.path, orig.host, orig.sec_key), b)

\* the transport is not ready in a turn of a loop: the poll returns Pending
\* and the next poll starts the function over.  A task is polled again when
\* the transport woke it, so the turn that follows is not pending.
HsPending ==
    /\ ~env.sync
    /\ pc \in {"send", "recv"}
    /\ last.op # "pending"
    /\ Len(wbuf) < MaxSuspend
    /\ wbuf' = Append(wbuf, call.offset)
    /\ call' = [call EXCEPT !.offset = 0]
    /\ buf' = IF pc = "send" THEN Reencoded(call, buf).buf ELSE buf
    /\ last' = Last("pending", pc, 0, "Pending", 0, call.offset)
    /\ UNCHANGED <<env, role, read_state, write_state, heartbeat, rx, rx_pos, tx,
                   out, frames, pc, orig>>

NextHandshakeAsync == Connect \/ HsWrite \/ HsRead \/ HsPending

SpecHandshakeAsync == InitHandshakeAsync /\ [][NextHandshakeAsync]_vars

(***************************************************************************)
(* The endpoints over a transport whose write accepts no byte.             *)
(***************************************************************************)
InitStalled ==
    /\ StreamInit
    /\ env = Env(TRUE, 0, 2, 0, FALSE, FALSE, FALSE)
    /\ \E len \in HsBufLens : buf = Zeros(len)
    /\ \/ /\ role = Role("Server", NoKey)
          /\ rx \in PeerSendsWhole(MatchingRequests)
          /\ orig = [host |-> HsHost, path |-> HsPath, sec_key |-> <<>>]
          /\ call = HsCall("accept", "recv", 0, Len(buf), 0)
          /\ pc = "recv"
       \/ /\ role = Role("Client", NoKey)
          /\ rx \in PeerSendsWhole(MatchingResponses)
          /\ \E k \in HsKeys : orig = [host |-> HsHost, path |-> HsPath, sec_key |-> k]
          /\ call = HsCall("connect", "encode", 0, 0, 0)
          /\ pc = "encode"
    /\ rx_pos = 0
    /\ tx = <<>>
    /\ out = <<>>
    /\ last = Last("none", "none", 0, "Ok", 0, 0)
    /\ frames = <<>>
    /\ wbuf = <<>>

\* connect: the request encoded and the first write of send_request, of
\* which the transport takes nothing
ConnectZero ==
    /\ pc = "encode"
    /\ \E enc \in {Request_encode(Request(orig.path, orig.host, orig.sec_key), buf)} :
          IF enc.err # "Ok"
          THEN /\ call' = HsCall("connect", enc.err, 0, 0, 0)
               /\ pc' = "failed"
               /\ buf' = enc.buf
               /\ last' = Last("encode", pc, 0, enc.err, 0, 0)
               /\ UNCHANGED tx
          ELSE /\ buf' = enc.buf
               /\ HsTransportWrite(HsCall("connect", "send", 0, enc.n, 0), enc.buf, 0)
    /\ UNCHANGED <<env, role, read_state, write_state, heartbeat, rx, rx_pos,
                   out, frames, wbuf, orig>>

\* a turn of the loop of send_request or send_response in which the
\* transport takes nothing: Ok(0)
HsWriteZero ==
    /\ pc = "send"
    /\ HsTransportWrite(call, buf, 0)
    /\ UNCHANGED <<env, role, read_state, write_state, heartbeat, rx, rx_pos,
                   buf, out, frames, wbuf, orig>>

NextStalled == ConnectZero \/ HsWriteZero \/ HsRead

\* the calls are blocking: the send loop takes its next turn as long as it
\* has one to take
SpecStalled ==
    InitStalled /\ [][NextStalled]_vars /\ WF_vars(ConnectZero) /\ WF_vars(HsWriteZero)

(***************************************************************************)
(* The handshake: properties.                                              *)
(***************************************************************************)
\* the message the endpoint has to send: the response to the decoded request
\* on the server, the request of this handshake on the client
HsEncoded ==
    LET enc == IF call.op = "accept"
               THEN Response_encode(Response(derive_accept_key(out.sec_key)), Zeros(Len(buf)))
               ELSE Request_encode(Request(orig.path, orig.host, orig.sec_key), Zeros(Len(buf)))
    IN  Slice(enc.buf, 0, enc.n)

\* the state right behind the return of send_request or send_response
SendReturned == last.op = "write" /\ pc # "send"

\* C24: send_request and send_response hand the encoded message to the
\* transport completely and in order whatever the transport takes per call
\* (at least one byte): while the loop runs the transport holds the first
\* offset bytes of the message, and on return it holds exactly the n
\* encoded bytes, once each, and n is returned.
C24_SendHandsOverAll ==
    /\ pc = "send" => tx = Slice(HsEncoded, 0, call.offset)
    /\ SendReturned => /\ tx = HsEncoded
                       /\ last.ret = Len(tx)

\* a response was sent in several writes, and a request was
C24_Witness ==
    /\ SendReturned
    /\ call.op = "accept"
    /\ last.io < Len(tx)
    /\ last.io > 1

\* what the transport has given so far, and what decode makes of it
Received == Slice(rx, 0, rx_pos)

HsDecode(b) == IF call.op = "accept" THEN Request_decode(b) ELSE Response_decode(b)

\* the state right behind the return of recv_request or recv_response
RecvReturned == last.op = "read" /\ pc # "recv"

\* C25: recv_request and recv_response read at an advancing offset and
\* decode after every read, whatever the size of the reads: while the loop
\* runs, buf[..offset] is what was read and it is an incomplete message; the
\* loop returns the number of bytes read as soon as they decode, fails with
\* NotEnoughData exactly when the transport gave 0, and with
\* NotEnoughCapacity when buf is full of an incomplete message.
C25_RecvReadsUntilDecoded ==
    /\ pc = "recv" => /\ call.offset = rx_pos
                      /\ call.offset < call.total
                      /\ Slice(buf, 0, call.offset) = Received
                      /\ HsDecode(Received).err = "NotEnoughData"
    /\ RecvReturned =>
          LET d == HsDecode(Received)
          IN  /\ d.err = "Ok" => /\ last.ret = rx_pos
                                 /\ last.io > 0
                                 /\ out = d.fields
                                 /\ HsDecode(Slice(rx, 0, rx_pos - last.io)).err = "NotEnoughData"
              /\ last.io = 0 <=> call.status = "NotEnoughData"
              /\ (last.io > 0 /\ d.err = "NotEnoughData")
                    => call.status = "NotEnoughCapacity" /\ rx_pos = Len(buf)
              /\ d.err \notin {"Ok", "NotEnoughData"} => call.status = d.err

\* a message that came in several reads was decoded when its last byte came
C25_Witness ==
    /\ RecvReturned
    /\ HsDecode(Received).err = "Ok"
    /\ last.io < rx_pos
    /\ rx_pos < Len(rx)

\* the two failures of the loop itself
C25_Closed == RecvReturned /\ call.status = "NotEnoughData" /\ rx_pos > 0

C25_Full == RecvReturned /\ call.status = "NotEnoughCapacity" /\ rx_pos < Len(rx)

\* the request as accept has it when recv_request has returned
Mismatch(request) == request.host # orig.host \/ request.path # orig.path

\* C26: accept writes to the transport only after the whole request has been
\* received and its host and path are those given to accept; on a host or
\* path mismatch it fails with a Manual error without having written a byte
\* and returns no Stream; a Stream is returned only behind the response.
C26_AcceptVerifiesFirst ==
    call.op = "accept" =>
        LET d == Request_decode(Received)
        IN  /\ tx # <<>> => /\ d.err = "Ok"
                            /\ ~Mismatch(d.fields)
                            /\ tx = Slice(HsEncoded, 0, Len(tx))
            /\ (d.err = "Ok" /\ Mismatch(d.fields))
                  => /\ call.status = (IF d.fields.host # orig.host
                                       THEN "Manual(host mismatch)"
                                       ELSE "Manual(path mismatch)")
                     /\ pc = "failed"
                     /\ tx = <<>>
            /\ pc = "done" => tx = HsEncoded

\* a complete request for the host of the endpoint and another path
C26_Witness ==
    /\ call.op = "accept"
    /\ RecvReturned
    /\ call.status = "Manual(path mismatch)"
    /\ out.host = orig.host
    /\ tx = <<>>

\* a complete matching request was answered and the Stream returned
C26_Accepted == call.op = "accept" /\ pc = "done" /\ ~Mismatch(out)

\* the key that went over the wire in the request of this handshake
SentKey == Request_decode(tx).fields.sec_key

\* C27: connect returns a Stream only if the sec_accept of the response is
\* derive_accept_key of the key sent in this handshake; a response with any
\* other accept value, the valid accept of another key included, makes it
\* fail with SecWebSocketAccept and no Stream is returned.
C27_ConnectChecksAccept ==
    call.op = "connect" =>
        /\ pc = "done" => /\ SentKey = orig.sec_key
                          /\ out.sec_accept = derive_accept_key(SentKey)
        /\ (RecvReturned /\ Response_decode(Received).err = "Ok"
              /\ Response_decode(Received).fields.sec_accept # derive_accept_key(SentKey))
              => /\ call.status = "SecWebSocketAccept"
                 /\ pc = "failed"

\* the response carried the valid accept value of another key
C27_Witness ==
    /\ call.op = "connect"
    /\ RecvReturned
    /\ call.status = "SecWebSocketAccept"
    /\ \E k \in HsKeys : /\ k # orig.sec_key
                          /\ Len(k) = Len(orig.sec_key)
                          /\ Response_decode(Received).fields.sec_accept
                               = derive_accept_key(k)

\* the response carried the accept value of this handshake
C27_Connected == call.op = "connect" /\ pc = "done"

(***************************************************************************)
(* The heartbeat: is_pinged.                                               *)
(***************************************************************************)
\* C28: once the transport has delivered a Ping frame of a legal length, 0
\* included, and read has taken it, is_pinged() is true.
C28_PingedOnceReceived ==
    (LongPings = {} /\ rx_pos = Len(rx)) => is_pinged(heartbeat)

(***************************************************************************)
(* The compaction of the caller's buffer.                                  *)
(***************************************************************************)
\* a read that found the stream between two frames and gave data to the
\* caller: the bytes came into buf behind their heads and ProcessBuf moved
\* them to the front
Compacted ==
    /\ read_state.tag = "ReadHead" /\ is_empty(read_state.store)
    /\ last'.op = "read" /\ last'.err = "Ok" /\ last'.ret > 0

\* C29: the compaction in ProcessBuf leaves at the front of buf exactly the
\* unmasked payload bytes that stood behind the frame heads, in their
\* order, also when source and destination overlap, and changes no byte
\* behind what the transport wrote; this for every order in which the
\* build may move the bytes.
C29_CompactionKeepsBytes ==
    [][Compacted =>
          \A order \in MemcpyOrders(env.sync) :
              LET r == DoRead(last'.n, FALSE, order)
              IN  /\ r.err = "Ok"
                  /\ Slice(r.buf, 0, r.ret)
                        = Slice(DataOf(frames, 1), Len(out), Len(out) + r.ret)
                  /\ \A i \in (last'.n + 1)..Len(buf) : r.buf[i] = buf[i]]_vars

(***************************************************************************)
(* A write that is retried.                                                *)
(***************************************************************************)
\* a write of an auto-masking role was suspended in WriteHead(empty) with the
\* caller's data, and the caller now calls write with the same span of the
\* same buffer, of which the transport takes the head and more
RetriedAfterPending ==
    /\ AutoMaskClientRole(role, env)
    /\ last.op = "write" /\ last.err = "Pending"
    /\ write_state = WriteState_new
    /\ call.given = Slice(orig, call.beg, call.end)
    /\ last'.op = "write" /\ last'.err = "Ok"
    /\ call'.beg = call.beg /\ call'.end = call.end
    /\ call'.given = Slice(wbuf, call.beg, call.end)
    /\ decode(Slice(tx', Len(tx), Len(tx'))).err = "Ok"

\* C30: a write that was suspended before the transport took a byte and is
\* retried with the same buffer puts a frame on the wire whose payload is
\* the original data masked once with the key of its head.
C30_RetryMasksOnce ==
    [][RetriedAfterPending =>
          LET sent == Slice(tx', Len(tx), Len(tx'))
              d == decode(sent)
              payload == Slice(sent, d.n, Len(sent))
              masked == apply_mask(d.head.mask.key, Slice(orig, call.beg, call.end))
          IN  /\ d.head.mask.kind = "Key"
              /\ payload = Slice(masked, 0, Len(payload))]_vars

(***************************************************************************)
(* The suspendable handshake.                                              *)
(***************************************************************************)
\* C31: resumed after the transport was not ready, send_request and
\* send_response do not send again what the transport took, and
\* recv_request and recv_response neither overwrite nor drop what they
\* received, so wire and result are those of a run without suspension: on
\* return of a send the transport holds the message, once; a receive is
\* still running only while what the transport gave is an incomplete
\* message, and returns the decoded message when it is complete.
C31_ResumeKeepsProgress ==
    /\ SendReturned => /\ tx = HsEncoded
                       /\ last.ret = Len(tx)
    /\ pc = "recv" => HsDecode(Received).err = "NotEnoughData"
    /\ (RecvReturned /\ HsDecode(Received).err = "Ok")
          => /\ out = HsDecode(Received).fields
             /\ last.ret = rx_pos

(***************************************************************************)
(* The cursors of the stores.                                              *)
(***************************************************************************)
\* a store of capacity cap with its cursors in order
CursorsInRange(s, cap) ==
    /\ Len(s.buf) = cap
    /\ 0 <= s.rd /\ s.rd <= s.wr /\ s.wr <= cap

\* C32: in every state the cursors of the read-side head store, of the
\* write-side head store and of the ping store are in order and within the
\* capacity (14, 14, 125), and no cursor has wrapped or was truncated: a
\* partial head saved in ReadHead is at most 13 bytes and is exactly the
\* last bytes the transport delivered, and a partial head left in WriteHead
\* is what of the head is not yet on the wire.
C32_CursorsInRange ==
    /\ CursorsInRange(read_state.store, HeadCap)
    /\ CursorsInRange(write_state.store, HeadCap)
    /\ CursorsInRange(heartbeat.ping_store, PingCap)
    /\ read_state.tag = "ReadHead"
          => /\ rd_left(read_state.store) <= HeadCap - 1
             /\ Store_read(read_state.store)
                   = Slice(rx, rx_pos - rd_left(read_state.store), rx_pos)
    /\ (write_state.tag = "WriteHead" /\ ~is_empty(write_state.store))
          => /\ write_state.store.rd >= 1
             /\ Slice(write_state.store.buf, write_state.store.rd - Min(Len(tx), write_state.store.rd), write_state.store.rd)
                   = Slice(tx, Len(tx) - Min(Len(tx), write_state.store.rd), Len(tx))

\* thirteen bytes of a head of fourteen are saved
C32_Witness ==
    /\ read_state.tag = "ReadHead"
    /\ rd_left(read_state.store) = HeadCap - 1
    /\ rx = LongHeadWire

(***************************************************************************)
(* ProcessBuf between the calls.                                           *)
(***************************************************************************)
\* C33: when a read call has returned, with a count, an error or pending,
\* the read state is ReadHead, ReadData, ReadPing, Close or Eof and never
\* ProcessBuf.
C33_ProcessBufIsTransient ==
    read_state.tag \in {"ReadHead", "ReadData", "ReadPing", "Close", "Eof"}

(***************************************************************************)
(* The destination of the transport reads.                                 *)
(***************************************************************************)
\* C34: with a caller buffer of 14 bytes or more every read of the transport
\* is given a destination of one byte or more, whatever the state: a saved
\* partial head leaves room behind it, and ReadData and ReadPing ask for a
\* byte or more; so the end of the stream is entered only behind a read the
\* transport answered with 0 of its own.
C34_ReadsHaveRoom ==
    /\ \A len \in MinBuf..BufLen :
          ReadsTransport(read_state, heartbeat)
             => ReadRoom(read_state, heartbeat, len, env.sync) >= 1
    /\ read_state.tag = "ReadPing" => read_state.next <= wr_left(heartbeat.ping_store)
    /\ (read_state.tag = "Eof" /\ last.from # "Eof")
          => /\ last.io = 1 /\ last.n = 0
             /\ last.from \in {"ReadHead", "ReadData", "ReadPing"}

\* a partial head of thirteen bytes leaves one byte of a buffer of fourteen
C34_Witness ==
    /\ read_state.tag = "ReadHead"
    /\ ReadRoom(read_state, heartbeat, MinBuf, env.sync) = 1

\* the end of the stream behind a partial head
C34_Ended == read_state.tag = "Eof" /\ last.from = "ReadHead" /\ rx_pos > 0

(***************************************************************************)
(* The send loop over a transport that takes nothing.                      *)
(***************************************************************************)
\* C35: every call of send_request or send_response returns, with a value or
\* an error, also when the write of the transport accepts 0 bytes: the send
\* loop is always left again.
C35_SendReturns == (pc = "send") ~> (pc # "send")

(***************************************************************************)
(* The Guarded write of an empty buffer.                                   *)
(***************************************************************************)
\* the head of a frame without payload, as the stream writes it
EmptyFrame == Submitted(WriteState_new, role, <<>>, Key1, env)

\* C36: a Guarded write of an empty buffer puts at most one frame, of length
\* zero, on the wire and returns: what the call has written never exceeds
\* the head of one empty frame.
C36_EmptyWriteOneFrame ==
    (env.guard /\ call.op = "write" /\ call.beg = call.end)
    => Len(tx) - call.tx0 <= Len(EmptyFrame)

(***************************************************************************)
(* The counters of the bytes outstanding.                                  *)
(***************************************************************************)
\* C37: the counters of outstanding bytes are never zero: ReadData holds
\* next >= 1, ReadPing holds 1 <= next <= 125 with next plus the write cursor
\* of the ping store at most 125, and WriteData holds n >= 1; the call that
\* transfers the last byte of a frame leaves the counting state.
C37_CountersNeverZero ==
    /\ read_state.tag = "ReadData" => read_state.next >= 1
    /\ read_state.tag = "ReadPing"
          => /\ 1 <= read_state.next /\ read_state.next <= MaxPingLen
             /\ read_state.next + heartbeat.ping_store.wr <= PingCap
    /\ write_state.tag = "WriteData" => write_state.next >= 1

\* a read took the last byte of a frame's payload in ReadData and left the
\* counting state, while a frame being written has one byte to go
C37_Witness ==
    /\ last.op = "read" /\ last.from = "ReadData" /\ last.io = 1 /\ last.n >= 1
    /\ read_state.tag = "ReadHead"
    /\ write_state.tag = "WriteData" /\ write_state.next = 1

(***************************************************************************)
(* The framing of what the Direct writes put on the wire.                  *)
(***************************************************************************)
\* where the wire image w ends, read as a sequence of frames: within a head
\* (left = bytes of the head seen), within a payload (left = bytes of the
\* announced length still to come), or in no frame at all
RECURSIVE Framing(_)
Framing(w) ==
    IF w = <<>> THEN [at |-> "head", left |-> 0]
    ELSE LET d == decode(w)
             len == to_num(d.head.length)
         IN CASE d.err = "NotEnoughData" -> [at |-> "head", left |-> Len(w)]
              [] d.err # "Ok" -> [at |-> "malformed", left |-> 0]
              [] Len(w) - d.n < len -> [at |-> "data", left |-> len - (Len(w) - d.n)]
              [] OTHER -> Framing(SubSeq(w, d.n + len + 1, Len(w)))

\* C38: whatever buffers the calls of a Direct write are given, the wire
\* holds a prefix of a sequence of well-formed frames: in WriteData(n) the
\* payload accepted for the current frame plus n is the length its head
\* announced, and a head is started only when the payload before it is whole.
C38_DirectWireIsFramed ==
    ~env.guard
    => /\ Framing(tx).at # "malformed"
       /\ write_state.tag = "WriteData"
             => Framing(tx) = [at |-> "data", left |-> write_state.next]
       /\ write_state.tag = "WriteHead"
             => Framing(tx) = [at |-> "head", left |-> write_state.store.rd]

(***************************************************************************)
(* What the handshake leaves on the transport.                             *)
(***************************************************************************)
\* C39: the receive of the handshake takes from the transport no byte past
\* the blank line that ends the peer's message: when connect or accept has
\* returned the Stream, what the transport still holds for the reads of that
\* Stream is all that the peer sent after the blank line.
C39_NothingPastBlankLine ==
    pc = "done"
    => Slice(rx, rx_pos, Len(rx)) = Slice(rx, HsDecode(Received).n, Len(rx))

(***************************************************************************)
(* The payload in front of a frame that fails.                             *)
(***************************************************************************)
\* C40: the payload of the data frames in front of a frame that fails is
\* surfaced before the error: when a read reports the frame error, the
\* caller has been given all the payload the peer sent in front of the
\* failing frame, what the failing call compacted included.
C40_PayloadBeforeErrorSurfaced ==
    (last.op = "read" /\ last.err \in FrameErrors /\ last.from # "ProcessBuf")
    => out = DataOf(frames, 1)

====
